---- MODULE Spec2Model ----
(***************************************************************************)
(* Model of the vector scene editor of src/App.tsx (component App) and of  *)
(* the generation request it issues (src/unnamed/part_000).                *)
(*                                                                         *)
(* The scene document is the DOM tree that the canvas holds.  It is kept   *)
(* as a heap of element nodes (nodes), each with its parent and its        *)
(* ordered children.  The canvas is rendered from the text svgContent      *)
(* (dangerouslySetInnerHTML): whenever that text changes, or the canvas is *)
(* mounted again, the text is parsed into FRESH elements and the elements  *)
(* of the tree shown before stay in memory only as long as the selection   *)
(* refers to them.  liveRoot is the <svg> element currently mounted in the *)
(* canvas (0 when there is none).                                          *)
(*                                                                         *)
(* One action is one event handler together with the render and the        *)
(* selection effect React runs before the next event.  The handlers are    *)
(* the operations of the editor and keep their own precondition checks     *)
(* (createAutoLayoutGroup and ungroup return early on a selection they do  *)
(* not accept); handlers written inline in a panel (Delete Selected,       *)
(* Clear, the Row / Column buttons) exist only while that panel is shown.  *)
(* An asynchronous handler (handleGenerate) is one action per await; its   *)
(* button carries isLoading={isGenerating}, and one request is in flight   *)
(* at a time.                                                              *)
(*                                                                         *)
(* lastOp, beforeGroup and inFlight are history variables: they record     *)
(* which handler ran last, what the parent looked like before the last     *)
(* group and which backend calls have not settled, and no handler reads    *)
(* them.  The gradient panel, the shadow panel and the layout of mixed     *)
(* containers are explored from an installed document by specifications of *)
(* their own (PaintSpec, ShadowSpec, LayoutSpec); the generation requests  *)
(* with the key button are explored alone by GenerationSpec.               *)
(***************************************************************************)
EXTENDS Integers, Sequences, FiniteSets, TLC

\* ------------------------------------------------------------------ bounds
MaxSel == 2        \* longest selection a shift-click may build
MaxSteps == 8      \* events handled per behaviour
MaxStops == 3      \* most stops the gradient panel is given
MaxPaintSteps == 4 \* events handled after the scene of PaintSpec is installed
MaxLayoutSteps == 3 \* events handled after the scene of LayoutSpec is installed
MaxShadowSteps == 4 \* events handled after the scene of ShadowSpec is installed

\* ------------------------------------------------------- program constants
GroupGap == 16
GroupPadding == 16
LayoutDefaultGap == 0
LayoutDefaultPadding == 0
PanelDefaultGap == 16
PanelDefaultPadding == 16

\* GenerateStart, GenerateBrief, GenerateInstall: the events of a generation
GenerationSteps == 3

\* an attribute that is not set on the element (gap, padding are >= 0 here)
NoAttr == 0 - 1

\* ------------------------------------------------------------ serialized text
\* The text form of an element: its markup without any element identity.
\* name stands for the rest of the element's markup (its geometry
\* attributes), w and h for the box its geometry measures to.  id is the id
\* attribute as its dot-separated parts (<<>> when there is none, <<"a">> for
\* id="a", <<"c", "d">> for id="c.d"); fill and origFill are the attributes
\* fill and data-orig-fill (<<>> when not set); stops and geom are the stop
\* children and the geometry attributes of a paint-server; filter is the
\* filter property of the style attribute (<<>> when not set).
Elem(tag, name, w, h, transform, kids) ==
    [tag |-> tag, name |-> name, id |-> <<>>, fill |-> <<>>, origFill |-> <<>>,
     filter |-> <<>>, stops |-> <<>>, geom |-> <<>>, flex |-> FALSE, direction |-> "",
     gap |-> NoAttr, padding |-> NoAttr, transform |-> transform,
     w |-> w, h |-> h, kids |-> kids]

FlexElem(name, direction, gap, padding, transform, kids) ==
    [Elem("g", name, 0, 0, transform, kids) EXCEPT
        !.flex = TRUE, !.direction = direction, !.gap = gap, !.padding = padding]

\* Three sibling rectangles directly under the root.
DocFlat ==
    Elem("svg", "root", 0, 0, <<>>,
         << Elem("rect", "a", 2, 1, <<>>, <<>>),
            Elem("rect", "b", 1, 2, <<>>, <<>>),
            Elem("rect", "c", 3, 1, <<>>, <<>>) >>)

\* A layout container (gap 0, padding 1) holding a vertical line (width 0)
\* and two rectangles, already laid out in a row.
DocFlex ==
    Elem("svg", "root", 0, 0, <<>>,
         << FlexElem("F", "", 0, 1, <<>>,
               << Elem("line", "l", 0, 2, <<1, 1>>, <<>>),
                  Elem("rect", "r", 2, 1, <<1, 1>>, <<>>),
                  Elem("rect", "s", 1, 1, <<3, 1>>, <<>>) >>) >>)

\* The documents the backend may return.
Docs == {DocFlat, DocFlex}

\* --------------------------------------------------------------- DOM helpers
Range(s) == {s[i] : i \in DOMAIN s}

Without(s, x) == LET keep(y) == y # x IN SelectSeq(s, keep)

IndexOf(s, x) == CHOOSE i \in DOMAIN s : s[i] = x

RECURSIVE Root(_, _)
Root(N, n) == IF N[n].parent = 0 THEN n ELSE Root(N, N[n].parent)

\* a is n or an ancestor of n
RECURSIVE IsInclusiveAncestor(_, _, _)
IsInclusiveAncestor(N, a, n) ==
    IF a = n THEN TRUE
    ELSE IF N[n].parent = 0 THEN FALSE
    ELSE IsInclusiveAncestor(N, a, N[n].parent)

\* Element.remove()
Remove(N, n) ==
    LET p == N[n].parent IN
    IF p = 0 THEN N
    ELSE [N EXCEPT ![p].children = Without(@, n), ![n].parent = 0]

\* parent.insertBefore(n, ref): n leaves its old place first
InsertBefore(N, p, n, ref) ==
    LET M == Remove(N, n)
        k == M[p].children
        i == IndexOf(k, ref)
    IN [M EXCEPT ![p].children = SubSeq(k, 1, i - 1) \o <<n>> \o SubSeq(k, i, Len(k)),
                 ![n].parent = p]

\* parent.appendChild(n)
AppendChild(N, p, n) ==
    LET M == Remove(N, n) IN
    [M EXCEPT ![p].children = Append(@, n), ![n].parent = p]

\* element.outerHTML
RECURSIVE Serialize(_, _)
Serialize(N, n) ==
    [tag |-> N[n].tag, name |-> N[n].name, id |-> N[n].id, fill |-> N[n].fill,
     origFill |-> N[n].origFill, filter |-> N[n].filter, stops |-> N[n].stops, geom |-> N[n].geom,
     flex |-> N[n].flex, direction |-> N[n].direction, gap |-> N[n].gap, padding |-> N[n].padding,
     transform |-> N[n].transform, w |-> N[n].w, h |-> N[n].h,
     kids |-> [i \in DOMAIN N[n].children |-> Serialize(N, N[n].children[i])]]

RECURSIVE Size(_)
RECURSIVE SizeUpTo(_, _)
Size(s) == 1 + SizeUpTo(s.kids, Len(s.kids))
SizeUpTo(k, i) == IF i = 0 THEN 0 ELSE SizeUpTo(k, i - 1) + Size(k[i])

\* The HTML parser: the elements of text s, allocated from id on, under parent.
RECURSIVE ParseAt(_, _, _)
RECURSIVE ParseKids(_, _, _)
ParseAt(s, id, parent) ==
    (id :> [tag |-> s.tag, name |-> s.name, id |-> s.id, fill |-> s.fill,
            origFill |-> s.origFill, filter |-> s.filter, stops |-> s.stops, geom |-> s.geom,
            flex |-> s.flex, direction |-> s.direction, gap |-> s.gap, padding |-> s.padding,
            transform |-> s.transform, w |-> s.w, h |-> s.h,
            parent |-> parent,
            children |-> [i \in DOMAIN s.kids |-> id + 1 + SizeUpTo(s.kids, i - 1)]])
    @@ ParseKids(s, id, Len(s.kids))
ParseKids(s, id, i) ==
    IF i = 0 THEN <<>>
    ELSE ParseKids(s, id, i - 1)
         @@ ParseAt(s.kids[i], id + 1 + SizeUpTo(s.kids, i - 1), id)

\* ------------------------------------------------------------------ geometry
Box(x, y, w, h) == [x |-> x, y |-> y, w |-> w, h |-> h]

Min(a, b) == IF a < b THEN a ELSE b
Max(a, b) == IF a > b THEN a ELSE b

Union(b1, b2) ==
    LET x0 == Min(b1.x, b2.x)
        y0 == Min(b1.y, b2.y)
    IN Box(x0, y0, Max(b1.x + b1.w, b2.x + b2.w) - x0,
                   Max(b1.y + b1.h, b2.y + b2.h) - y0)

Shift(b, t) == IF t = <<>> THEN b ELSE Box(b.x + t[1], b.y + t[2], b.w, b.h)

\* The box of a rendered element in its own user space: a shape measures to
\* its geometry, a container to the union of its children's boxes, each moved
\* by that child's transform (an empty container measures to the empty box).
\* The elements that are not graphics elements: they are not rendered and
\* have no getBBox method.
NotGraphics == {"metadata"}

\* the children of n that are rendered
Graphics(N, n) ==
    LET rendered(c) == N[c].tag \notin NotGraphics IN SelectSeq(N[n].children, rendered)

RECURSIVE RenderedBBox(_, _)
RECURSIVE UnionUpTo(_, _, _)
RenderedBBox(N, n) ==
    IF N[n].tag # "g" THEN Box(0, 0, N[n].w, N[n].h)
    ELSE IF Graphics(N, n) = <<>> THEN Box(0, 0, 0, 0)
    ELSE UnionUpTo(N, Graphics(N, n), Len(Graphics(N, n)))
UnionUpTo(N, k, i) ==
    LET b == Shift(RenderedBBox(N, k[i]), N[k[i]].transform) IN
    IF i = 1 THEN b ELSE Union(UnionUpTo(N, k, i - 1), b)

\* What getBBox() does on an element that is not in the rendered document
\* depends on the browser: it returns the empty box or it throws.
DetachedBBox == {"zero", "throw"}

\* element.getBBox() under measuring mode m: <<box>>, or <<>> when it throws
\* (an element without the method: TypeError)
GetBBox(N, n, m) ==
    IF N[n].tag \in NotGraphics THEN <<>>
    ELSE IF m = "rendered" THEN <<RenderedBBox(N, n)>>
    ELSE IF m = "zero" THEN <<Box(0, 0, 0, 0)>>
    ELSE <<>>

\* ---------------------------------------------------------------- runAutoLayout
Direction(N, g) == IF N[g].direction = "" THEN "horizontal" ELSE N[g].direction
Gap(N, g) == IF N[g].gap = NoAttr THEN LayoutDefaultGap ELSE N[g].gap
Padding(N, g) == IF N[g].padding = NoAttr THEN LayoutDefaultPadding ELSE N[g].padding

LayoutChildren(N, g) ==
    LET visual(c) == N[c].tag \notin {"title", "desc"} IN
    SelectSeq(N[g].children, visual)

\* runAutoLayout leaving the gap for a child it could not measure
RECURSIVE LayoutUpToCountsAll(_, _, _, _, _)
LayoutUpToCountsAll(N, g, k, i, m) ==
    IF i = 0 THEN [N |-> N, offset |-> Padding(N, g)]
    ELSE LET prev == LayoutUpToCountsAll(N, g, k, i - 1, m)
             bb == GetBBox(prev.N, k[i], m)
         IN IF bb = <<>> THEN [N |-> prev.N, offset |-> prev.offset + Gap(N, g)]
            ELSE IF Direction(N, g) = "horizontal"
            THEN [N |-> [prev.N EXCEPT ![k[i]].transform = <<prev.offset, Padding(N, g)>>],
                  offset |-> prev.offset + bb[1].w + Gap(N, g)]
            ELSE [N |-> [prev.N EXCEPT ![k[i]].transform = <<Padding(N, g), prev.offset>>],
                  offset |-> prev.offset + bb[1].h + Gap(N, g)]

\* runAutoLayout advancing the offset by the child's size without the gap
RECURSIVE LayoutUpToNoGap(_, _, _, _, _)
LayoutUpToNoGap(N, g, k, i, m) ==
    IF i = 0 THEN [N |-> N, offset |-> Padding(N, g)]
    ELSE LET prev == LayoutUpToNoGap(N, g, k, i - 1, m)
             bb == GetBBox(prev.N, k[i], m)
         IN IF bb = <<>> THEN prev
            ELSE IF Direction(N, g) = "horizontal"
            THEN [N |-> [prev.N EXCEPT ![k[i]].transform = <<prev.offset, Padding(N, g)>>],
                  offset |-> prev.offset + bb[1].w]
            ELSE [N |-> [prev.N EXCEPT ![k[i]].transform = <<Padding(N, g), prev.offset>>],
                  offset |-> prev.offset + bb[1].h]

\* the forEach of runAutoLayout over the first i children: the document and
\* the running offset afterwards
RECURSIVE LayoutUpTo(_, _, _, _, _)
LayoutUpTo(N, g, k, i, m) ==
    IF i = 0 THEN [N |-> N, offset |-> Padding(N, g)]
    ELSE LET prev == LayoutUpTo(N, g, k, i - 1, m)
             bb == GetBBox(prev.N, k[i], m)
         IN IF bb = <<>> THEN prev
            ELSE IF Direction(N, g) = "horizontal"
            THEN [N |-> [prev.N EXCEPT ![k[i]].transform = <<prev.offset, Padding(N, g)>>],
                  offset |-> prev.offset + bb[1].w + Gap(N, g)]
            ELSE [N |-> [prev.N EXCEPT ![k[i]].transform = <<Padding(N, g), prev.offset>>],
                  offset |-> prev.offset + bb[1].h + Gap(N, g)]

RunAutoLayout(N, g, m) ==
    IF ~N[g].flex THEN N
    ELSE LayoutUpTo(N, g, LayoutChildren(N, g), Len(LayoutChildren(N, g)), m).N

\* -------------------------------------------------------------- group, ungroup
NewGroup(id) ==
    [tag |-> "g", name |-> "layout-" \o ToString(id),
     id |-> <<"layout-" \o ToString(id)>>, fill |-> <<>>, origFill |-> <<>>,
     filter |-> <<>>,
     stops |-> <<>>, geom |-> <<>>, flex |-> TRUE,
     direction |-> "horizontal", gap |-> GroupGap, padding |-> GroupPadding,
     transform |-> <<>>, w |-> 0, h |-> 0, parent |-> 0, children |-> <<>>]

\* selectedElements.forEach(el => group.appendChild(el)) over the first i
\* elements; appendChild throws when el contains the group
RECURSIVE AppendUpTo(_, _, _, _)
AppendUpTo(N, sel, group, i) ==
    IF i = 0 THEN [N |-> N, threw |-> FALSE]
    ELSE LET prev == AppendUpTo(N, sel, group, i - 1) IN
         IF prev.threw THEN prev
         ELSE IF IsInclusiveAncestor(prev.N, sel[i], group)
         THEN [N |-> prev.N, threw |-> TRUE]
         ELSE [N |-> AppendChild(prev.N, group, sel[i]), threw |-> FALSE]

\* the document part of createAutoLayoutGroup, up to the append loop
GroupInsert(N, sel, group) ==
    LET N0 == N @@ (group :> NewGroup(group))
        firstElem == sel[1]
        N1 == IF N0[firstElem].parent = 0 THEN N0
              ELSE InsertBefore(N0, N0[firstElem].parent, group, firstElem)
    IN AppendUpTo(N1, sel, group, Len(sel))

\* the document part of ungroup
RECURSIVE MoveOutUpTo(_, _, _, _, _)
MoveOutUpTo(N, parent, group, children, i) ==
    IF i = 0 THEN N
    ELSE InsertBefore(MoveOutUpTo(N, parent, group, children, i - 1),
                      parent, children[i], group)

\* ungroup putting the children at the end of the parent
UngroupDomAtEnd(N, group) ==
    LET RECURSIVE AppendOut(_, _)
        AppendOut(M, i) ==
            IF i = 0 THEN M
            ELSE AppendChild(AppendOut(M, i - 1), N[group].parent, N[group].children[i])
    IN Remove(AppendOut(N, Len(N[group].children)), group)

\* ungroup leaving the emptied container in place
UngroupDomKeepsGroup(N, group) ==
    MoveOutUpTo(N, N[group].parent, group, N[group].children, Len(N[group].children))

UngroupDom(N, group) ==
    Remove(MoveOutUpTo(N, N[group].parent, group, N[group].children,
                       Len(N[group].children)), group)

\* ----------------------------------------------------------------- selection
EligibleTags == {"path", "rect", "circle", "ellipse", "text", "g"}

\* target.closest('path, rect, circle, ellipse, text, g'); 0 for null
RECURSIVE Closest(_, _)
Closest(N, n) ==
    IF N[n].tag \in EligibleTags THEN n
    ELSE IF N[n].parent = 0 THEN 0
    ELSE Closest(N, N[n].parent)

Includes(s, x) == \E i \in DOMAIN s : s[i] = x

\* a shift-click on a selected node clearing the whole selection
NextSelectionClears(sel, svgEl, shiftKey) ==
    IF svgEl = 0 THEN <<>>
    ELSE IF shiftKey
    THEN IF Includes(sel, svgEl) THEN <<>> ELSE Append(sel, svgEl)
    ELSE <<svgEl>>

\* a shift-click on an unselected node putting it first
NextSelectionPrepends(sel, svgEl, shiftKey) ==
    IF svgEl = 0 THEN <<>>
    ELSE IF shiftKey
    THEN IF Includes(sel, svgEl) THEN Without(sel, svgEl) ELSE <<svgEl>> \o sel
    ELSE <<svgEl>>

\* a shift-click appending without the membership test
NextSelectionAppends(sel, svgEl, shiftKey) ==
    IF svgEl = 0 THEN <<>>
    ELSE IF shiftKey THEN Append(sel, svgEl)
    ELSE <<svgEl>>

\* the selection handleCanvasMouseDown sets
NextSelection(sel, svgEl, shiftKey) ==
    IF svgEl = 0 THEN <<>>
    ELSE IF shiftKey
    THEN IF Includes(sel, svgEl) THEN Without(sel, svgEl) ELSE Append(sel, svgEl)
    ELSE <<svgEl>>

\* ------------------------------------------------------------------ the shadow
\* A hex colour is its six digits; an opacity is counted in hundredths.
Black == <<0, 0, 0, 0, 0, 0>>
Red == <<15, 15, 0, 0, 0, 0>>

\* useState of shadowProps
ShadowDefaults ==
    [enabled |-> FALSE, x |-> 0, y |-> 4, blur |-> 10, color |-> Black, opacity |-> 25]

\* rgba(r, g, b, alpha) from '#rrggbb'
HexToRgba(hex, alpha) ==
    <<"rgba", hex[1] * 16 + hex[2], hex[3] * 16 + hex[4], hex[5] * 16 + hex[6], alpha>>

Px(v) == <<v, "px">>

\* The text that style.filter holds after it was assigned
\* drop-shadow(x px y px blur px rgba): the style declaration keeps the value
\* as it serializes it, with the colour after the lengths or before them.
DropShadow(x, y, blur, rgba, colorFirst) ==
    [fn |-> "drop-shadow",
     args |-> IF colorFirst THEN <<rgba, Px(x), Px(y), Px(blur)>>
              ELSE <<Px(x), Px(y), Px(blur), rgba>>]

\* filter.match(/drop-shadow\(([-\d.]+)px\s+([-\d.]+)px\s+([-\d.]+)px\s+(rgba?\(.*?\))\)/i):
\* three lengths, then the colour
MatchShadow(f) ==
    IF /\ f.fn = "drop-shadow"
       /\ Len(f.args) = 4
       /\ \A i \in 1..3 : Len(f.args[i]) = 2 /\ f.args[i][2] = "px"
       /\ Len(f.args[4]) = 5
    THEN <<[x |-> f.args[1][1], y |-> f.args[2][1], blur |-> f.args[3][1]]>>
    ELSE <<>>

\* the shadow panel as the selection effect derives it
DeriveShadowProps(N, sel, prev) ==
    IF sel = <<>> THEN prev
    ELSE LET filter == N[sel[1]].filter IN
         IF filter # <<>> /\ filter[1].fn = "drop-shadow"
         THEN LET match == MatchShadow(filter[1]) IN
              IF match # <<>>
              THEN [prev EXCEPT !.enabled = TRUE, !.x = match[1].x, !.y = match[1].y,
                                !.blur = match[1].blur]
              ELSE prev
         ELSE [prev EXCEPT !.enabled = FALSE]

\* the layout panel as the selection effect derives it
DeriveLayoutProps(N, sel, prev) ==
    IF sel = <<>> THEN prev
    ELSE IF Len(sel) = 1 /\ N[sel[1]].tag = "g"
    THEN [enabled |-> N[sel[1]].flex,
          direction |-> IF N[sel[1]].direction = "" THEN "horizontal"
                        ELSE N[sel[1]].direction,
          gap |-> IF N[sel[1]].gap = NoAttr THEN PanelDefaultGap ELSE N[sel[1]].gap,
          padding |-> IF N[sel[1]].padding = NoAttr THEN PanelDefaultPadding
                      ELSE N[sel[1]].padding]
    ELSE [prev EXCEPT !.enabled = FALSE]

\* ------------------------------------------------------------- paint servers
\* the elements below n, in document order
RECURSIVE Descendants(_, _)
RECURSIVE DescendantsUpTo(_, _, _)
Descendants(N, n) == DescendantsUpTo(N, N[n].children, Len(N[n].children))
DescendantsUpTo(N, k, i) ==
    IF i = 0 THEN <<>>
    ELSE DescendantsUpTo(N, k, i - 1) \o <<k[i]>> \o Descendants(N, k[i])

\* the first element of s, 0 (null) when s is empty
First(s) == IF s = <<>> THEN 0 ELSE s[1]

\* root.querySelector(tag)
QueryTag(N, root, tag) ==
    LET match(x) == N[x].tag = tag IN First(SelectSeq(Descendants(N, root), match))

\* the class attribute of an element: the documents here set none
Classes(N, x) == {}

\* root.querySelector(`#${gradId}`).  In a selector a dot ends the id and
\* starts a class name: "#grad-c.d" asks for id "grad-c" with class "d".
QueryId(N, root, gradId) ==
    LET match(x) == /\ N[x].id = <<gradId[1]>>
                    /\ Range(Tail(gradId)) \subseteq Classes(N, x)
    IN First(SelectSeq(Descendants(N, root), match))

\* the values of a fill attribute
Color(c) == <<"color", c>>
Url(gradId) == <<"url", gradId>>
DefaultFill == Color("#cccccc")

\* `${stop.offset}%` and parseInt of it
Percent(n) == <<n, "%">>
ParseInt(text) == text[1]

\* what the gradient stop sliders and pickers, and the angle slider, are set to
Angles == {0, 45}
StopEdits == {[offset |-> 50], [color |-> "#ffffff"]}

\* 50 * Math.cos(rad) and 50 * Math.sin(rad) in thousandths, for the angles
\* of the model and the panel's first angle
Cos50(angle) == CASE angle = 0 -> 50000 [] angle = 45 -> 35355 [] angle = 90 -> 0
Sin50(angle) == CASE angle = 0 -> 0 [] angle = 45 -> 35355 [] angle = 90 -> 50000

\* Math.round of a value given in thousandths
Round(v) == (v + 500) \div 1000

\* the geometry attributes with y2 taken from the sine
GeometrySin(g) ==
    IF g.type = "linear"
    THEN [x1 |-> Percent(Round(50000 - Cos50(g.angle))),
          y1 |-> Percent(Round(50000 - Sin50(g.angle))),
          x2 |-> Percent(Round(50000 + Cos50(g.angle))),
          y2 |-> Percent(Round(50000 + Sin50(g.angle)))]
    ELSE [cx |-> Percent(50), cy |-> Percent(50), r |-> Percent(50)]

\* the geometry attributes updateGradientProperty sets
Geometry(g) ==
    IF g.type = "linear"
    THEN [x1 |-> Percent(Round(50000 - Cos50(g.angle))),
          y1 |-> Percent(Round(50000 - Sin50(g.angle))),
          x2 |-> Percent(Round(50000 + Cos50(g.angle))),
          y2 |-> Percent(Round(50000 + Cos50(g.angle)))]
    ELSE [cx |-> Percent(50), cy |-> Percent(50), r |-> Percent(50)]

\* the stop children made from the descriptor's stops
StopElements(stops) ==
    [i \in DOMAIN stops |-> [offset |-> Percent(stops[i].offset), color |-> stops[i].color]]

GradientTag(type) == IF type = "linear" THEN "linearGradient" ELSE "radialGradient"

\* document.createElementNS(svg, tag), with its id attribute set
NewElement(tag, id) ==
    [tag |-> tag, name |-> tag, id |-> id, fill |-> <<>>, origFill |-> <<>>,
     filter |-> <<>>,
     stops |-> <<>>, geom |-> <<>>, flex |-> FALSE, direction |-> "",
     gap |-> NoAttr, padding |-> NoAttr, transform |-> <<>>, w |-> 0, h |-> 0,
     parent |-> 0, children |-> <<>>]

\* old.replaceWith(new), new being a fresh element
ReplaceWith(N, old, new) ==
    LET p == N[old].parent IN
    [N EXCEPT ![p].children = [i \in DOMAIN @ |-> IF @[i] = old THEN new ELSE @[i]],
              ![new].parent = p,
              ![old].parent = 0]

\* let defs = rootSvg.querySelector('defs'), made and prepended when null;
\* next is the first unused element id
EnsureDefs(N, rootSvg, next) ==
    LET defs == QueryTag(N, rootSvg, "defs") IN
    IF defs # 0 THEN [N |-> N, defs |-> defs, next |-> next]
    ELSE [N |-> [(N @@ (next :> NewElement("defs", <<>>)))
                    EXCEPT ![rootSvg].children = <<next>> \o @,
                           ![next].parent = rootSvg],
          defs |-> next, next |-> next + 1]

\* `grad-${el.id}`, or `grad-${random}` for an element without id
GradIdOf(id, random) ==
    IF id # <<>> THEN <<"grad-" \o id[1]>> \o Tail(id) ELSE <<"grad-" \o random>>

\* the paint-server of id gradId in defs, found or made for descriptor g
\* (made in place of one of the other kind)
FindOrCreate(N, next, defs, gradId, g) ==
    LET gradEl == QueryId(N, defs, gradId)
        made == N @@ (next :> NewElement(GradientTag(g.type), gradId))
    IN IF gradEl = 0
       THEN [N |-> AppendChild(made, defs, next), gradEl |-> next, next |-> next + 1]
       ELSE IF N[gradEl].tag # GradientTag(g.type)
       THEN [N |-> ReplaceWith(made, gradEl, next), gradEl |-> next, next |-> next + 1]
       ELSE [N |-> N, gradEl |-> gradEl, next |-> next]

\* the body of the forEach of updateGradientProperty for element el
GradientOn(N, next, defs, el, g, random) ==
    IF ~g.enabled
    THEN [N |-> [N EXCEPT ![el].fill = IF N[el].origFill # <<>> THEN N[el].origFill
                                       ELSE IF N[el].fill # <<>> THEN N[el].fill
                                       ELSE DefaultFill],
          next |-> next]
    ELSE LET N1 == IF N[el].origFill # <<>> THEN N
                   ELSE [N EXCEPT ![el].origFill =
                            IF N[el].fill # <<>> THEN N[el].fill ELSE DefaultFill]
             gradId == GradIdOf(N[el].id, random)
             F == FindOrCreate(N1, next, defs, gradId, g)
         IN [N |-> [F.N EXCEPT ![F.gradEl].geom = Geometry(g),
                               ![F.gradEl].stops = StopElements(g.stops),
                               ![el].fill = Url(gradId)],
             next |-> F.next]

\* selectedElements.forEach(...) of updateGradientProperty over the first i
\* elements; random[i] is what Math.random gives for the i-th
RECURSIVE GradientUpTo(_, _, _, _, _, _, _)
GradientUpTo(N, next, defs, sel, g, random, i) ==
    IF i = 0 THEN [N |-> N, next |-> next]
    ELSE LET prev == GradientUpTo(N, next, defs, sel, g, random, i - 1) IN
         GradientOn(prev.N, prev.next, defs, sel[i], g, random[i])

\* the gradient panel as the selection effect derives it; rootSvg is the
\* mounted document
DeriveGradientProps(N, rootSvg, sel, prev) ==
    IF sel = <<>> THEN prev
    ELSE LET fill == N[sel[1]].fill IN
         IF fill # <<>> /\ fill[1] = "url"
         THEN LET gradEl == IF rootSvg = 0 THEN 0 ELSE QueryId(N, rootSvg, fill[2])
                  stops == IF gradEl = 0 THEN <<>>
                           ELSE [i \in DOMAIN N[gradEl].stops |->
                                    [offset |-> ParseInt(N[gradEl].stops[i].offset),
                                     color |-> N[gradEl].stops[i].color]]
              IN IF gradEl = 0 THEN prev
                 ELSE [enabled |-> TRUE,
                       type |-> IF N[gradEl].tag = "linearGradient" THEN "linear"
                                ELSE "radial",
                       angle |-> 90,
                       stops |-> IF Len(stops) > 0 THEN stops ELSE prev.stops]
         ELSE [prev EXCEPT !.enabled = FALSE]

\* --------------------------------------------------------- the bounding box
\* the translation the effect reads off the transform attribute of el
Translation(N, el) == IF N[el].transform = <<>> THEN <<0, 0>> ELSE N[el].transform

\* selectedElements.forEach of the effect over the first i elements: <<>>
\* while minX is Infinity, else <<[minX, minY, maxX, maxY]>>; an element
\* outside the mounted document is measured as detached says
RECURSIVE BboxUpTo(_, _, _, _, _)
BboxUpTo(N, live, sel, detached, i) ==
    IF i = 0 THEN <<>>
    ELSE LET acc == BboxUpTo(N, live, sel, detached, i - 1)
             el == sel[i]
             m == IF live # 0 /\ Root(N, el) = live THEN "rendered" ELSE detached
             bb == GetBBox(N, el, m)
             t == Translation(N, el)
         IN IF bb = <<>> THEN acc
            ELSE LET x0 == bb[1].x + t[1]
                     y0 == bb[1].y + t[2]
                     x1 == bb[1].x + bb[1].w + t[1]
                     y1 == bb[1].y + bb[1].h + t[2]
                 IN IF acc = <<>>
                    THEN <<[minX |-> x0, minY |-> y0, maxX |-> x1, maxY |-> y1]>>
                    ELSE <<[minX |-> Min(acc[1].minX, x0), minY |-> Min(acc[1].minY, y0),
                            maxX |-> Max(acc[1].maxX, x1), maxY |-> Max(acc[1].maxY, y1)]>>

\* the box the selection effect sets
DeriveBbox(N, live, sel, detached) ==
    LET acc == BboxUpTo(N, live, sel, detached, Len(sel)) IN
    IF acc = <<>> THEN <<>>
    ELSE <<Box(acc[1].minX, acc[1].minY, acc[1].maxX - acc[1].minX,
               acc[1].maxY - acc[1].minY)>>

\* ------------------------------------------------------- the backend service
\* maxRetries = 2, let delay = 2000 (withRetry)
MaxRetries == 2
InitialDelay == 2000

\* A value a backend call may reject with, or that the service throws.
\* instance: it is an Error object, whose message is not an enumerable
\* property; status: its status property (0 when it has none).
Err(instance, status, message) ==
    [instance |-> instance, status |-> status, message |-> message]

EntityMessage == "Requested entity was not found."
QuotaMessage == "429 RESOURCE_EXHAUSTED"
EntityQuotaMessage == "RESOURCE_EXHAUSTED Requested entity was not found."

\* message.includes(pattern), for the patterns the program searches for
MessageIncludes(message, pattern) ==
    IF pattern = "429" THEN message = QuotaMessage
    ELSE IF pattern = "RESOURCE_EXHAUSTED"
    THEN message \in {QuotaMessage, EntityQuotaMessage}
    ELSE IF pattern = EntityMessage
    THEN message \in {EntityMessage, EntityQuotaMessage}
    ELSE FALSE

\* JSON.stringify(error).includes(pattern): the text has the enumerable
\* properties only, so it has the status, and the message of a plain object
StringifyIncludes(error, pattern) ==
    \/ pattern = "429" /\ error.status = 429
    \/ ~error.instance /\ MessageIncludes(error.message, pattern)

\* What generateContent may reject with: the quota error and the
\* entity-not-found error of the backend, each as a plain object and as an
\* Error object with a status, an error matching both patterns, and a
\* failure of the network.
BackendErrors ==
    { Err(FALSE, 429, QuotaMessage), Err(TRUE, 429, QuotaMessage),
      Err(FALSE, 404, EntityMessage), Err(TRUE, 404, EntityMessage),
      Err(FALSE, 429, EntityQuotaMessage), Err(TRUE, 0, "Failed to fetch") }

\* What response.text may be: a JSON record, an svg document, an svg document
\* with prose around it, prose alone, or nothing.
Responses == {"json", "svg", "prose svg", "prose", ""}

Callers == {"generateDesignBrief", "generateSVGDesign"}

Returned(value) == [ok |-> TRUE, value |-> value]
Threw(error) == [ok |-> FALSE, error |-> error]

\* text.match(/<svg[\s\S]*<\/svg>/i): <<the match>>, or <<>> for null
SvgMatch(text) == IF text \in {"svg", "prose svg"} THEN <<"svg">> ELSE <<>>

\* The function handed to withRetry, once the backend has answered with a
\* response text: generateDesignBrief parses it as JSON, generateSVGDesign
\* takes the svg document out of it.
FnOnResponse(caller, text) ==
    IF caller = "generateDesignBrief"
    THEN IF text \in {"json", ""} THEN Returned("brief")
         ELSE Threw(Err(TRUE, 0, "SyntaxError"))
    ELSE IF SvgMatch(text) = <<>> THEN Threw(Err(TRUE, 0, "SVG_PARSE_FAILED"))
         ELSE Returned(SvgMatch(text)[1])

IsQuotaError(error) ==
    \/ error.status = 429
    \/ StringifyIncludes(error, "429")
    \/ StringifyIncludes(error, "RESOURCE_EXHAUSTED")

IsEntityError(error) == StringifyIncludes(error, EntityMessage)

\* the catch block of withRetry in iteration i, retrying a quota error on
\* the last iteration too
CatchInRetryAlways(error, i) ==
    IF IsEntityError(error) THEN [pc |-> "threw", error |-> Err(TRUE, 0, "ENTITY_NOT_FOUND")]
    ELSE IF IsQuotaError(error) THEN [pc |-> "wait", error |-> error]
    ELSE [pc |-> "threw", error |-> error]

\* the catch block of withRetry in iteration i: what it does next, and the
\* error it throws or waits on
CatchInRetry(error, i) ==
    IF IsEntityError(error) THEN [pc |-> "threw", error |-> Err(TRUE, 0, "ENTITY_NOT_FOUND")]
    ELSE IF IsQuotaError(error) /\ i < MaxRetries THEN [pc |-> "wait", error |-> error]
    ELSE [pc |-> "threw", error |-> error]

\* --------------------------------------------------------------------- state
VARIABLES
    nodes,              \* the elements in memory: id -> element
    nextId,             \* the next element id to allocate
    liveRoot,           \* canvasRef.current.querySelector('svg'), 0 for null
    svgContent,         \* the canonical text: <<>> for '', else <<text>>
    activeTab,          \* "canvas" or "code"
    selectedElements,   \* sequence of element ids
    layoutProps,        \* the layout panel
    gradientProps,      \* the gradient panel (the gradient descriptor)
    shadowProps,        \* the shadow panel (the shadow descriptor)
    bbox,               \* the box drawn around the selection: <<>> for null
    genPc,              \* handleGenerate: "idle", "brief" or "svg"
    isGenerating,
    quotaError,
    systemError,        \* <<>> for null, else <<message>>
    brief,              \* the design brief shown: <<>> for null
    inFlight,           \* the backend calls of handleGenerate not yet settled
    isApiKeySelected,
    keyPc,              \* handleSelectKey: "idle", or "open" while
                        \* openSelectKey is awaited
    steps,              \* events handled so far
    lastOp,             \* the handler that ran last, and its input
    beforeGroup,        \* history: the parent as it was before the group
                        \* that the last one or two handlers made (and undid)
    \* one run of withRetry
    caller,             \* the service function that called it
    retryPc,            \* "call" (fn in flight), "wait" (the timer runs),
                        \* "returned" or "threw"
    attempt,            \* the loop variable i
    delay,
    outcome,            \* <<>>, or <<what withRetry returned or threw>>
    calls,              \* history: what each invocation of fn did
    waits               \* history: the delays waited, in order

keyVars == <<isApiKeySelected, keyPc>>

genVars == <<genPc, isGenerating, quotaError, systemError, brief, inFlight,
             isApiKeySelected, keyPc>>

retryVars == <<caller, retryPc, attempt, delay, outcome, calls, waits>>

vars == <<nodes, nextId, liveRoot, svgContent, activeTab, selectedElements,
          layoutProps, gradientProps, shadowProps, bbox, genPc, isGenerating, quotaError,
          systemError, brief, inFlight, isApiKeySelected, keyPc, steps, lastOp, beforeGroup,
          caller, retryPc, attempt, delay, outcome, calls, waits>>

Op(op, node, shift, mode) == [op |-> op, node |-> node, shift |-> shift, mode |-> mode]

\* a text as the backend returned it (raw) or as outerHTML writes it
Text(raw, doc) == [raw |-> raw, doc |-> doc]

OuterHTML(N, n) == Text(FALSE, Serialize(N, n))

\* the gradient descriptor a stop is added with, and the panel's first stops
Stop(offset, color) == [offset |-> offset, color |-> color]

RetryIdle ==
    /\ caller = ""
    /\ retryPc = "returned"
    /\ attempt = 0
    /\ delay = InitialDelay
    /\ outcome = <<>>
    /\ calls = <<>>
    /\ waits = <<>>

Init ==
    /\ RetryIdle
    /\ gradientProps = [enabled |-> FALSE, type |-> "linear", angle |-> 90,
                        stops |-> <<Stop(0, "#6366f1"), Stop(100, "#a855f7")>>]
    /\ shadowProps = ShadowDefaults
    /\ quotaError = FALSE
    /\ systemError = <<>>
    /\ nodes = <<>>
    /\ nextId = 1
    /\ liveRoot = 0
    /\ svgContent = <<>>
    /\ activeTab = "canvas"
    /\ selectedElements = <<>>
    /\ layoutProps = [enabled |-> FALSE, direction |-> "horizontal",
                      gap |-> PanelDefaultGap, padding |-> PanelDefaultPadding]
    /\ genPc = "idle"
    /\ isGenerating = FALSE
    /\ brief = <<>>
    /\ inFlight = <<>>
    /\ isApiKeySelected = TRUE
    /\ keyPc = "idle"
    /\ steps = 0
    /\ lastOp = Op("init", 0, FALSE, "")
    /\ beforeGroup = <<>>
    /\ bbox = <<>>

\* ---------------------------------------------------------------- the render
\* The canvas after a render with text svg and tab tab: the inner HTML is set
\* when the canvas is mounted, or when the text differs from the text of the
\* previous render; it is then parsed into fresh elements (ids from next on).
Render(N, svg, tab, next) ==
    IF tab # "canvas" \/ svg = <<>>
    THEN [nodes |-> N, live |-> 0, next |-> next]
    ELSE IF liveRoot # 0 /\ svg = svgContent
    THEN [nodes |-> N, live |-> liveRoot, next |-> next]
    ELSE [nodes |-> N @@ ParseAt(svg[1].doc, next, 0), live |-> next,
          next |-> next + Size(svg[1].doc)]

\* the elements still referenced: the mounted tree and the trees that hold a
\* selected element
Reachable(N, live, sel) ==
    LET keep == {n \in DOMAIN N :
                    \/ Root(N, n) = live
                    \/ \E i \in DOMAIN sel : Root(N, n) = Root(N, sel[i])}
    IN [n \in keep |-> N[n]]

\* currentSvg = canvasRef.current?.querySelector('svg');
\* if (currentSvg) setSvgContent(currentSvg.outerHTML)
Sync(N) == IF liveRoot = 0 THEN svgContent ELSE <<OuterHTML(N, liveRoot)>>

\* The state after a handler that left the document N, the selection sel, the
\* text svg and the tab tab, with ids below next in use; selSet: the handler
\* called setSelectedElements (the selection effect then runs after the
\* render and derives the panels).
CommitAll(N, sel, svg, tab, selSet, lp, gp, sp, next, op) ==
    /\ steps < MaxSteps
    /\ \E R \in {Render(N, svg, tab, next)} :
       /\ UNCHANGED retryVars
       /\ shadowProps' = IF selSet THEN DeriveShadowProps(R.nodes, sel, sp) ELSE sp
       /\ gradientProps' = IF selSet THEN DeriveGradientProps(R.nodes, R.live, sel, gp)
                           ELSE gp
       /\ nodes' = Reachable(R.nodes, R.live, sel)
       /\ liveRoot' = R.live
       /\ nextId' = R.next
       /\ svgContent' = svg
       /\ activeTab' = tab
       /\ selectedElements' = sel
       /\ layoutProps' = IF selSet THEN DeriveLayoutProps(R.nodes, sel, lp) ELSE lp
       /\ \E detached \in (IF selSet /\ \E i \in DOMAIN sel : Root(R.nodes, sel[i]) # R.live
                           THEN DetachedBBox ELSE {"zero"}) :
             bbox' = IF selSet THEN DeriveBbox(R.nodes, R.live, sel, detached) ELSE bbox
       /\ lastOp' = op
       /\ steps' = steps + 1
       /\ beforeGroup' =
             IF op.op = "group" /\ op.node # 0 /\ op.mode # "threw"
             THEN <<[parent |-> nodes[selectedElements[1]].parent,
                     children |-> nodes[nodes[selectedElements[1]].parent].children,
                     selection |-> selectedElements]>>
             ELSE IF op.op = "ungroup" /\ op.node # 0 THEN beforeGroup
             ELSE <<>>

\* the same for a handler that leaves the shadow panel alone
Commit(N, sel, svg, tab, selSet, lp, gp, next, op) ==
    CommitAll(N, sel, svg, tab, selSet, lp, gp, shadowProps, next, op)

\* the same for a handler that leaves the gradient panel alone
Finish(N, sel, svg, tab, selSet, lp, next, op) ==
    Commit(N, sel, svg, tab, selSet, lp, gradientProps, next, op)

\* how getBBox answers for element n: it is rendered when it is in the
\* mounted document
MeasureMode(N, n, detached) ==
    IF liveRoot # 0 /\ Root(N, n) = liveRoot THEN "rendered" ELSE detached

\* ------------------------------------------------------------------ handlers
\* the elements a pointer event can have as its target: the shapes of the
\* mounted document, and its root (the background)
Targets == {n \in DOMAIN nodes :
               /\ Root(nodes, n) = liveRoot
               /\ nodes[n].tag \notin NotGraphics
               /\ (n = liveRoot \/ (nodes[n].tag # "g" /\ nodes[n].children = <<>>))}

HandleCanvasMouseDown(target, shiftKey) ==
    LET svgEl == Closest(nodes, target)
        nextSelection == NextSelection(selectedElements, svgEl, shiftKey)
    IN /\ liveRoot # 0
       /\ target \in Targets
       /\ Len(nextSelection) <= MaxSel
       /\ Finish(nodes, nextSelection, svgContent, activeTab, TRUE, layoutProps,
                 nextId, Op("click", svgEl, shiftKey, ""))
       /\ UNCHANGED genVars

\* a selection that createAutoLayoutGroup takes from one element on
TooFewSelectedBelowOne(sel) == Len(sel) < 1

\* selectedElements.length < 2
TooFewSelected(sel) == Len(sel) < 2

CreateAutoLayoutGroup(detached) ==
    /\ UNCHANGED genVars
    /\ IF TooFewSelected(selectedElements) \/ liveRoot = 0
       THEN Finish(nodes, selectedElements, svgContent, activeTab, FALSE, layoutProps,
                   nextId, Op("group", 0, FALSE, ""))
       ELSE LET group == nextId
                G == GroupInsert(nodes, selectedElements, group)
                m == MeasureMode(G.N, group, detached)
                N2 == RunAutoLayout(G.N, group, m)
            IN IF G.threw
               THEN \* appendChild threw: the handler ends there, no state is set
                    Finish(G.N, selectedElements, svgContent, activeTab, FALSE,
                           layoutProps, nextId + 1, Op("group", group, FALSE, "threw"))
               ELSE Finish(N2, <<group>>, Sync(N2), activeTab, TRUE, layoutProps,
                           nextId + 1, Op("group", group, FALSE, m))

Ungroup ==
    /\ UNCHANGED genVars
    /\ IF \/ Len(selectedElements) # 1
          \/ nodes[selectedElements[1]].tag # "g"
          \/ nodes[selectedElements[1]].parent = 0
       THEN Finish(nodes, selectedElements, svgContent, activeTab, FALSE, layoutProps,
                   nextId, Op("ungroup", 0, FALSE, ""))
       ELSE LET group == selectedElements[1]
                children == nodes[group].children
                N2 == UngroupDom(nodes, group)
            IN Finish(N2, children, Sync(N2), activeTab, TRUE, layoutProps,
                      nextId, Op("ungroup", group, FALSE, ""))

\* group.setAttribute(`data-${prop}`, value)
SetLayoutAttribute(N, group, prop, value) ==
    IF prop = "direction" THEN [N EXCEPT ![group].direction = value]
    ELSE IF prop = "gap" THEN [N EXCEPT ![group].gap = value]
    ELSE [N EXCEPT ![group].padding = value]

\* what the layout panel offers: Row and Column
LayoutInputs == {<<"direction", "horizontal">>, <<"direction", "vertical">>}

\* updateLayoutProperty(selectedElements[0], prop, value), from the layout
\* panel (shown when layoutProps.enabled)
UpdateLayoutProperty(prop, value, detached) ==
    /\ UNCHANGED genVars
    /\ selectedElements # <<>>
    /\ layoutProps.enabled
    /\ LET group == selectedElements[1]
           N1 == SetLayoutAttribute(nodes, group, prop, value)
           m == MeasureMode(N1, group, detached)
           N2 == RunAutoLayout(N1, group, m)
           lp == IF Len(selectedElements) = 1
                 THEN [layoutProps EXCEPT ![prop] = value] ELSE layoutProps
       IN Finish(N2, selectedElements, Sync(N2), activeTab, FALSE, lp, nextId,
                 Op("layout", group, FALSE, m))

RECURSIVE RemoveUpTo(_, _, _)
RemoveUpTo(N, sel, i) ==
    IF i = 0 THEN N ELSE Remove(RemoveUpTo(N, sel, i - 1), sel[i])

\* Delete Selected (the button of the inspector, shown for a selection)
DeleteSelected ==
    /\ UNCHANGED genVars
    /\ selectedElements # <<>>
    /\ LET N2 == RemoveUpTo(nodes, selectedElements, Len(selectedElements)) IN
       Finish(N2, <<>>, Sync(N2), activeTab, TRUE, layoutProps, nextId,
              Op("delete", selectedElements[1], FALSE, ""))

\* Clear (shown when there is a document)
ClearCanvas ==
    /\ UNCHANGED <<genPc, isGenerating, quotaError, systemError, inFlight, keyVars>>
    /\ brief' = <<>>
    /\ svgContent # <<>>
    /\ Finish(nodes, <<>>, <<>>, activeTab, TRUE, layoutProps, nextId,
              Op("clear", 0, FALSE, ""))

SetActiveTab(tab) ==
    /\ UNCHANGED genVars
    /\ tab # activeTab
    /\ Finish(nodes, selectedElements, svgContent, tab, FALSE, layoutProps, nextId,
              Op("tab", 0, FALSE, ""))

\* what the shadow panel offers: the sliders and the colour input are shown
\* while the descriptor is enabled
ShadowInputs(prop) ==
    IF prop = "enabled" THEN BOOLEAN
    ELSE IF ~shadowProps.enabled THEN {}
    ELSE IF prop = "color" THEN {Red}
    ELSE IF prop = "blur" THEN {0, 6}
    ELSE {0 - 2, 3}

RECURSIVE SetFilterUpTo(_, _, _, _)
SetFilterUpTo(N, sel, f, i) ==
    IF i = 0 THEN N
    ELSE [SetFilterUpTo(N, sel, f, i - 1) EXCEPT ![sel[i]].filter = f]

\* updateShadowProperty(key, value); colorFirst: how the style declaration
\* serializes the value it is given
UpdateShadowProperty(prop, value, colorFirst) ==
    /\ UNCHANGED genVars
    /\ selectedElements # <<>>
    /\ LET newProps == [shadowProps EXCEPT ![prop] = value]
           f == IF ~newProps.enabled THEN <<>>
                ELSE <<DropShadow(newProps.x, newProps.y, newProps.blur,
                                  HexToRgba(newProps.color, newProps.opacity),
                                  colorFirst)>>
           N2 == SetFilterUpTo(nodes, selectedElements, f, Len(selectedElements))
       IN CommitAll(N2, selectedElements, Sync(N2), activeTab, FALSE, layoutProps,
                    gradientProps, newProps, nextId,
                    Op("shadow", selectedElements[1], FALSE, prop))

\* the design briefs generateDesignBrief may return: the one parsed from
\* the response, and the empty object of an empty response
Briefs == {"brief", "{}"}

\* the calls in flight once service function fn was called with arg
Called(flight, fn, arg) == Append(flight, [fn |-> fn, arg |-> arg])

\* the calls in flight when a handler goes on without awaiting its call
ResumedAtOnce(flight) == flight

\* the calls in flight once the awaited call has returned or thrown: the
\* handler is resumed only then
Resumed(flight) == Tail(flight)

\* handleGenerate up to its first await
GenerateStart ==
    /\ genPc = "idle"
    /\ genPc' = "brief"
    /\ isGenerating' = TRUE
    /\ quotaError' = FALSE
    /\ systemError' = <<>>
    /\ inFlight' = Called(inFlight, "generateDesignBrief", <<>>)
    /\ UNCHANGED <<brief, keyVars>>
    /\ Finish(nodes, <<>>, svgContent, activeTab, TRUE, layoutProps, nextId,
              Op("generate", 0, FALSE, ""))

\* what withRetry can end up throwing to the caller of service function c
ThrownBy(c) ==
    LET inFn == {FnOnResponse(c, text) : text \in Responses}
        raised == BackendErrors \cup {r.error : r \in {x \in inFn : ~x.ok}}
    IN {CatchInRetry(error, MaxRetries).error : error \in raised}

SessionInvalid == "API Key session invalid. Re-selecting..."
KeyUnsupported == "API Key selection is not supported in this environment."
GenerationFailed == "Generation failed. Please try again."

\* handleSelectKey up to its await: without window.aistudio it sets the
\* system error at once
SelectKeyStart(aistudio, error) == IF aistudio THEN error ELSE <<KeyUnsupported>>

\* the catch block of handleGenerate: the error state it leaves
CatchInGenerate(err, aistudio) ==
    IF err.message = "ENTITY_NOT_FOUND" \/ StringifyIncludes(err, EntityMessage)
    THEN [quotaError |-> quotaError,
          systemError |-> SelectKeyStart(aistudio, <<SessionInvalid>>),
          isApiKeySelected |-> FALSE,
          keyPc |-> IF aistudio THEN "open" ELSE keyPc]
    ELSE IF \/ err.status = 429
            \/ MessageIncludes(err.message, "429")
            \/ StringifyIncludes(err, "429")
            \/ StringifyIncludes(err, "RESOURCE_EXHAUSTED")
    THEN [quotaError |-> TRUE, systemError |-> systemError,
          isApiKeySelected |-> isApiKeySelected, keyPc |-> keyPc]
    ELSE [quotaError |-> quotaError,
          systemError |-> <<IF err.message # "" THEN err.message ELSE GenerationFailed>>,
          isApiKeySelected |-> isApiKeySelected, keyPc |-> keyPc]

\* isGenerating after a catch block whose early return skipped the reset
BusyAfterReturn(err) == err.message = "ENTITY_NOT_FOUND"

\* isGenerating after the try statement ended on error err:
\* finally { setIsGenerating(false) } runs after the return of the catch
\* block too
BusyAfter(err) == FALSE

\* the catch and finally blocks of handleGenerate
Failed(err, aistudio) ==
    /\ genPc' = "idle"
    /\ isGenerating' = BusyAfter(err)
    /\ quotaError' = CatchInGenerate(err, aistudio).quotaError
    /\ systemError' = CatchInGenerate(err, aistudio).systemError
    /\ isApiKeySelected' = CatchInGenerate(err, aistudio).isApiKeySelected
    /\ keyPc' = CatchInGenerate(err, aistudio).keyPc
    /\ inFlight' = Resumed(inFlight)
    /\ UNCHANGED brief
    /\ Finish(nodes, selectedElements, svgContent, activeTab, FALSE, layoutProps,
              nextId, Op("failed", 0, FALSE, err.message))

\* generateDesignBrief returns db: setBrief(db), and generateSVGDesign is
\* called with it
GenerateBrief(db) ==
    /\ genPc = "brief"
    /\ genPc' = "svg"
    /\ brief' = <<db>>
    /\ inFlight' = Called(Resumed(inFlight), "generateSVGDesign", <<db>>)
    /\ UNCHANGED <<isGenerating, quotaError, systemError, keyVars>>
    /\ Finish(nodes, selectedElements, svgContent, activeTab, FALSE, layoutProps,
              nextId, Op("brief", 0, FALSE, db))

\* generateDesignBrief throws
GenerateBriefFail(err, aistudio) ==
    /\ genPc = "brief"
    /\ Failed(err, aistudio)

\* a failed generation emptying the canvas
GenerateFailClears(err, aistudio) ==
    /\ genPc = "svg"
    /\ genPc' = "idle"
    /\ isGenerating' = FALSE
    /\ quotaError' = CatchInGenerate(err, aistudio).quotaError
    /\ systemError' = CatchInGenerate(err, aistudio).systemError
    /\ isApiKeySelected' = CatchInGenerate(err, aistudio).isApiKeySelected
    /\ keyPc' = CatchInGenerate(err, aistudio).keyPc
    /\ inFlight' = Resumed(inFlight)
    /\ UNCHANGED brief
    /\ Finish(nodes, selectedElements, <<>>, activeTab, FALSE, layoutProps,
              nextId, Op("failed", 0, FALSE, err.message))

\* generateSVGDesign returns svg: setSvgContent(svg); setActiveTab('canvas')
GenerateInstall(svg) ==
    /\ genPc = "svg"
    /\ genPc' = "idle"
    /\ isGenerating' = FALSE
    /\ inFlight' = Resumed(inFlight)
    /\ UNCHANGED <<quotaError, systemError, brief, keyVars>>
    /\ Finish(nodes, selectedElements, <<svg>>, "canvas", FALSE, layoutProps,
              nextId, Op("install", 0, FALSE, ""))

\* generateSVGDesign throws
GenerateFail(err, aistudio) ==
    /\ genPc = "svg"
    /\ Failed(err, aistudio)

\* openSelectKey resolves: the rest of handleSelectKey
SelectKeyResolved ==
    /\ keyPc = "open"
    /\ keyPc' = "idle"
    /\ quotaError' = FALSE
    /\ isApiKeySelected' = TRUE
    /\ systemError' = <<>>
    /\ UNCHANGED <<genPc, isGenerating, brief, inFlight>>
    /\ Finish(nodes, selectedElements, svgContent, activeTab, FALSE, layoutProps,
              nextId, Op("key", 0, FALSE, "resolved"))

\* openSelectKey rejects: the catch block of handleSelectKey logs it
SelectKeyRejected ==
    /\ keyPc = "open"
    /\ keyPc' = "idle"
    /\ UNCHANGED <<genPc, isGenerating, quotaError, systemError, brief, inFlight,
                   isApiKeySelected>>
    /\ Finish(nodes, selectedElements, svgContent, activeTab, FALSE, layoutProps,
              nextId, Op("key", 0, FALSE, "rejected"))

\* handleSelectKey from the key button of the header, up to its await
HandleSelectKey(aistudio) ==
    /\ keyPc' = IF aistudio THEN "open" ELSE keyPc
    /\ systemError' = SelectKeyStart(aistudio, systemError)
    /\ UNCHANGED <<genPc, isGenerating, quotaError, brief, inFlight, isApiKeySelected>>
    /\ Finish(nodes, selectedElements, svgContent, activeTab, FALSE, layoutProps,
              nextId, Op("key", 0, FALSE, "clicked"))

\* ----------------------------------------------------------- gradient panel
\* what Math.random may give for the elements of the selection
RandomSuffixes == {"r1", "r2"}
Randoms ==
    {r \in [1..Len(selectedElements) -> RandomSuffixes] :
        \A i \in DOMAIN r : nodes[selectedElements[i]].id # <<>> => r[i] = "r1"}

\* updateGradientProperty(prop, value) from its first statement on; op names
\* the panel handler that called it and mode its argument
SetGradient(prop, value, random, op, mode) ==
    LET newGradient == [gradientProps EXCEPT ![prop] = value] IN
    /\ UNCHANGED genVars
    /\ selectedElements # <<>>
    /\ IF liveRoot = 0
       THEN Commit(nodes, selectedElements, svgContent, activeTab, FALSE, layoutProps,
                   newGradient, nextId, Op(op, 0, FALSE, mode))
       ELSE \E D \in {EnsureDefs(nodes, liveRoot, nextId)} :
            \E S \in {GradientUpTo(D.N, D.next, D.defs, selectedElements, newGradient,
                                   random, Len(selectedElements))} :
               Commit(S.N, selectedElements, Sync(S.N), activeTab, FALSE, layoutProps,
                      newGradient, S.next, Op(op, selectedElements[1], FALSE, mode))

\* the values the gradient section offers for prop: the checkbox toggles
\* enabled; the kind buttons and, for a linear gradient, the angle slider
\* show when the gradient is enabled
GradientInputs(prop) ==
    IF prop = "enabled" THEN {~gradientProps.enabled}
    ELSE IF ~gradientProps.enabled THEN {}
    ELSE IF prop = "type" THEN {"linear", "radial"}
    ELSE IF gradientProps.type = "linear" THEN Angles ELSE {}

UpdateGradientProperty(prop, value, random) ==
    /\ value \in GradientInputs(prop)
    /\ SetGradient(prop, value, random, "gradient", prop)

\* { ...newStops[index], ...stop }
MergeStop(old, stop) ==
    [f \in {"offset", "color"} |-> IF f \in DOMAIN stop THEN stop[f] ELSE old[f]]

UpdateGradientStop(index, stop, random) ==
    /\ gradientProps.enabled
    /\ index \in DOMAIN gradientProps.stops
    /\ LET newStops == [gradientProps.stops EXCEPT ![index] = MergeStop(@, stop)]
       IN SetGradient("stops", newStops, random, "updateStop", ToString(index))

AddGradientStop(random) ==
    /\ gradientProps.enabled
    /\ Len(gradientProps.stops) < MaxStops
    /\ LET newStops == Append(gradientProps.stops, Stop(100, "#000000"))
       IN SetGradient("stops", newStops, random, "addStop", "")

\* gradientProps.stops.filter((_, i) => i !== index)
FilterOut(stops, index) ==
    SubSeq(stops, 1, index - 1) \o SubSeq(stops, index + 1, Len(stops))

\* the guard of removeGradientStop letting a descriptor of two stops through
StopFloorReachedBelowTwo(stops) == Len(stops) < 2

\* if (gradientProps.stops.length <= 2) return
StopFloorReached(stops) == Len(stops) <= 2

RemoveGradientStop(index, random) ==
    /\ gradientProps.enabled
    /\ index \in DOMAIN gradientProps.stops
    /\ IF StopFloorReached(gradientProps.stops)
       THEN /\ UNCHANGED genVars
            /\ Finish(nodes, selectedElements, svgContent, activeTab, FALSE,
                      layoutProps, nextId, Op("removeStop", 0, FALSE, ToString(index)))
       ELSE SetGradient("stops", FilterOut(gradientProps.stops, index), random,
                        "removeStop", ToString(index))

\* the texts the backend may return
Texts == {Text(raw, doc) : raw \in BOOLEAN, doc \in Docs}

Next ==
    \/ \E target \in DOMAIN nodes, shiftKey \in BOOLEAN :
          HandleCanvasMouseDown(target, shiftKey)
    \/ \E detached \in DetachedBBox : CreateAutoLayoutGroup(detached)
    \/ Ungroup
    \/ \E in \in LayoutInputs, detached \in DetachedBBox :
          UpdateLayoutProperty(in[1], in[2], detached)
    \/ DeleteSelected
    \/ ClearCanvas
    \/ \E tab \in {"canvas", "code"} : SetActiveTab(tab)
    \/ GenerateStart
    \/ \E db \in Briefs : GenerateBrief(db)
    \/ \E err \in ThrownBy("generateDesignBrief"), aistudio \in BOOLEAN :
          GenerateBriefFail(err, aistudio)
    \/ \E svg \in Texts : GenerateInstall(svg)
    \/ \E err \in ThrownBy("generateSVGDesign"), aistudio \in BOOLEAN :
          GenerateFail(err, aistudio)
    \/ SelectKeyResolved
    \/ SelectKeyRejected

Spec == Init /\ [][Next]_vars

\* --------------------------------------------------- the generation requests
\* the events a request started now still needs: the two calls settling
Remaining == CASE genPc = "idle" -> 0 [] genPc = "brief" -> 2 [] genPc = "svg" -> 1

\* a request is started while the events of all of it remain to be counted
GenerationBound == steps + GenerationSteps <= MaxSteps

\* another event is handled while the events of the running request remain
GenerationRoom == steps + Remaining < MaxSteps

\* a call awaited by handleGenerate settles
CallSettled ==
    \/ \E db \in Briefs : GenerateBrief(db)
    \/ \E err \in ThrownBy("generateDesignBrief"), aistudio \in BOOLEAN :
          GenerateBriefFail(err, aistudio)
    \/ \E svg \in Texts : GenerateInstall(svg)
    \/ \E err \in ThrownBy("generateSVGDesign"), aistudio \in BOOLEAN :
          GenerateFail(err, aistudio)

GenerationNext ==
    \/ GenerationBound /\ GenerateStart
    \/ CallSettled
    \/ GenerationRoom /\ SelectKeyResolved
    \/ GenerationRoom /\ SelectKeyRejected
    \/ GenerationRoom /\ \E aistudio \in BOOLEAN : HandleSelectKey(aistudio)

GenerationSpec == Init /\ [][GenerationNext]_vars

\* every backend call eventually settles
GenerationLiveSpec == GenerationSpec /\ WF_vars(CallSettled)

\* ------------------------------------------------- the editor with its paints
\* A document of four rectangles: one with id "a" and a fill, one with id
\* "c.d" and a fill, one with neither id nor fill, and one whose fill refers
\* to a paint-server the document does not have.
DocPaint ==
    Elem("svg", "root", 0, 0, <<>>,
         << [Elem("rect", "p", 2, 1, <<>>, <<>>) EXCEPT !.id = <<"a">>,
                                                      !.fill = Color("red")],
            [Elem("rect", "q", 1, 2, <<>>, <<>>) EXCEPT !.id = <<"c", "d">>,
                                                      !.fill = Color("blue")],
            Elem("rect", "u", 3, 1, <<>>, <<>>),
            [Elem("rect", "v", 1, 1, <<>>, <<>>) EXCEPT !.fill = Url(<<"gone">>)] >>)

\* The state after the first generation has installed DocPaint.
PaintInit ==
    /\ RetryIdle
    /\ gradientProps = [enabled |-> FALSE, type |-> "linear", angle |-> 90,
                        stops |-> <<Stop(0, "#6366f1"), Stop(100, "#a855f7")>>]
    /\ shadowProps = ShadowDefaults
    /\ quotaError = FALSE
    /\ systemError = <<>>
    /\ nodes = ParseAt(DocPaint, 1, 0)
    /\ nextId = 1 + Size(DocPaint)
    /\ liveRoot = 1
    /\ svgContent = <<Text(TRUE, DocPaint)>>
    /\ activeTab = "canvas"
    /\ selectedElements = <<>>
    /\ layoutProps = [enabled |-> FALSE, direction |-> "horizontal",
                      gap |-> PanelDefaultGap, padding |-> PanelDefaultPadding]
    /\ genPc = "idle"
    /\ isGenerating = FALSE
    /\ brief = <<"brief">>
    /\ inFlight = <<>>
    /\ isApiKeySelected = TRUE
    /\ keyPc = "idle"
    /\ steps = GenerationSteps
    /\ lastOp = Op("install", 0, FALSE, "")
    /\ beforeGroup = <<>>
    /\ bbox = <<>>

\* the events of PaintSpec are counted up to the bound
PaintBound == steps < GenerationSteps + MaxPaintSteps

PaintNext ==
    \/ PaintBound /\ \E target \in DOMAIN nodes, shiftKey \in BOOLEAN :
                        HandleCanvasMouseDown(target, shiftKey)
    \/ PaintBound /\ \E tab \in {"canvas", "code"} : SetActiveTab(tab)
    \/ PaintBound /\ \E prop \in {"enabled", "type", "angle"}, random \in Randoms :
                        \E value \in GradientInputs(prop) :
                            UpdateGradientProperty(prop, value, random)
    \/ PaintBound /\ \E index \in DOMAIN gradientProps.stops, stop \in StopEdits,
                        random \in Randoms : UpdateGradientStop(index, stop, random)
    \/ PaintBound /\ \E random \in Randoms : AddGradientStop(random)
    \/ PaintBound /\ \E index \in DOMAIN gradientProps.stops, random \in Randoms :
                        RemoveGradientStop(index, random)

PaintSpec == PaintInit /\ [][PaintNext]_vars

\* ------------------------------------------------------- the editor on shadows
\* The state after the first generation has installed DocFlat.
ShadowInit ==
    /\ RetryIdle
    /\ gradientProps = [enabled |-> FALSE, type |-> "linear", angle |-> 90,
                        stops |-> <<Stop(0, "#6366f1"), Stop(100, "#a855f7")>>]
    /\ shadowProps = ShadowDefaults
    /\ quotaError = FALSE
    /\ systemError = <<>>
    /\ nodes = ParseAt(DocFlat, 1, 0)
    /\ nextId = 1 + Size(DocFlat)
    /\ liveRoot = 1
    /\ svgContent = <<Text(TRUE, DocFlat)>>
    /\ activeTab = "canvas"
    /\ selectedElements = <<>>
    /\ layoutProps = [enabled |-> FALSE, direction |-> "horizontal",
                      gap |-> PanelDefaultGap, padding |-> PanelDefaultPadding]
    /\ genPc = "idle"
    /\ isGenerating = FALSE
    /\ brief = <<"brief">>
    /\ inFlight = <<>>
    /\ isApiKeySelected = TRUE
    /\ keyPc = "idle"
    /\ steps = GenerationSteps
    /\ lastOp = Op("install", 0, FALSE, "")
    /\ beforeGroup = <<>>
    /\ bbox = <<>>

\* the events of ShadowSpec are counted up to the bound
ShadowBound == steps < GenerationSteps + MaxShadowSteps

ShadowNext ==
    \/ ShadowBound /\ \E target \in DOMAIN nodes, shiftKey \in BOOLEAN :
                         HandleCanvasMouseDown(target, shiftKey)
    \/ ShadowBound /\ \E prop \in {"enabled", "x", "y", "blur", "color"},
                         colorFirst \in BOOLEAN :
                         \E value \in ShadowInputs(prop) :
                             UpdateShadowProperty(prop, value, colorFirst)

ShadowSpec == ShadowInit /\ [][ShadowNext]_vars

\* ---------------------------------------------- the editor on layout containers
\* what a layout container may hold: a rectangle, a vertical line placed by
\* the backend, and a metadata element
KidKinds ==
    { Elem("rect", "r", 2, 1, <<>>, <<>>),
      Elem("line", "l", 0, 2, <<5, 5>>, <<>>),
      Elem("metadata", "m", 0, 0, <<>>, <<>>) }

\* Documents of one layout container of padding 1 with three children.
LayoutDocs ==
    { Elem("svg", "root", 0, 0, <<>>, << FlexElem("F", "", gap, 1, <<>>, kids) >>) :
        gap \in {0, 2}, kids \in [1..3 -> KidKinds] }

\* The state after the first generation has installed one of LayoutDocs.
LayoutInit ==
    /\ RetryIdle
    /\ gradientProps = [enabled |-> FALSE, type |-> "linear", angle |-> 90,
                        stops |-> <<Stop(0, "#6366f1"), Stop(100, "#a855f7")>>]
    /\ shadowProps = ShadowDefaults
    /\ quotaError = FALSE
    /\ systemError = <<>>
    /\ \E doc \in LayoutDocs :
          /\ nodes = ParseAt(doc, 1, 0)
          /\ nextId = 1 + Size(doc)
          /\ svgContent = <<Text(TRUE, doc)>>
    /\ liveRoot = 1
    /\ activeTab = "canvas"
    /\ selectedElements = <<>>
    /\ layoutProps = [enabled |-> FALSE, direction |-> "horizontal",
                      gap |-> PanelDefaultGap, padding |-> PanelDefaultPadding]
    /\ genPc = "idle"
    /\ isGenerating = FALSE
    /\ brief = <<"brief">>
    /\ inFlight = <<>>
    /\ isApiKeySelected = TRUE
    /\ keyPc = "idle"
    /\ steps = GenerationSteps
    /\ lastOp = Op("install", 0, FALSE, "")
    /\ beforeGroup = <<>>
    /\ bbox = <<>>

\* the events of LayoutSpec are counted up to the bound
LayoutBound == steps < GenerationSteps + MaxLayoutSteps

LayoutNext ==
    \/ LayoutBound /\ \E target \in DOMAIN nodes, shiftKey \in BOOLEAN :
                         HandleCanvasMouseDown(target, shiftKey)
    \/ LayoutBound /\ \E in \in LayoutInputs, detached \in DetachedBBox :
                         UpdateLayoutProperty(in[1], in[2], detached)

LayoutSpec == LayoutInit /\ [][LayoutNext]_vars

\* ------------------------------------------------------------ one withRetry run
\* withRetry(fn) has been called by service function c and fn is in flight
RetryInit ==
    /\ caller \in Callers
    /\ retryPc = "call"
    /\ attempt = 0
    /\ delay = InitialDelay
    /\ outcome = <<>>
    /\ calls = <<>>
    /\ waits = <<>>
    /\ gradientProps = [enabled |-> FALSE, type |-> "linear", angle |-> 90,
                        stops |-> <<Stop(0, "#6366f1"), Stop(100, "#a855f7")>>]
    /\ shadowProps = ShadowDefaults
    /\ quotaError = FALSE
    /\ systemError = <<>>
    /\ nodes = <<>>
    /\ nextId = 1
    /\ liveRoot = 0
    /\ svgContent = <<>>
    /\ activeTab = "canvas"
    /\ selectedElements = <<>>
    /\ layoutProps = [enabled |-> FALSE, direction |-> "horizontal",
                      gap |-> PanelDefaultGap, padding |-> PanelDefaultPadding]
    /\ genPc = "brief"
    /\ isGenerating = TRUE
    /\ brief = <<>>
    /\ inFlight = Called(<<>>, "generateDesignBrief", <<>>)
    /\ isApiKeySelected = TRUE
    /\ keyPc = "idle"
    /\ steps = 1
    /\ lastOp = Op("generate", 0, FALSE, "")
    /\ beforeGroup = <<>>
    /\ bbox = <<>>

editorVars == <<nodes, nextId, liveRoot, svgContent, activeTab, selectedElements,
                layoutProps, gradientProps, shadowProps, bbox, genPc, isGenerating, quotaError,
                systemError, brief, inFlight, isApiKeySelected, keyPc, steps, lastOp, beforeGroup>>

\* what the catch block of withRetry does with error
Caught(error) ==
    LET c == CatchInRetry(error, attempt) IN
    /\ retryPc' = c.pc
    /\ outcome' = IF c.pc = "threw" THEN <<Threw(c.error)>> ELSE <<>>
    /\ UNCHANGED <<caller, attempt, delay, waits>>

\* the backend answers the call of fn with a response
FnResponds(text) ==
    /\ retryPc = "call"
    /\ calls' = Append(calls, FnOnResponse(caller, text))
    /\ IF FnOnResponse(caller, text).ok
       THEN /\ retryPc' = "returned"
            /\ outcome' = <<FnOnResponse(caller, text)>>
            /\ UNCHANGED <<caller, attempt, delay, waits>>
       ELSE Caught(FnOnResponse(caller, text).error)
    /\ UNCHANGED editorVars

\* the backend rejects the call of fn
FnRejects(error) ==
    /\ retryPc = "call"
    /\ calls' = Append(calls, Threw(error))
    /\ Caught(error)
    /\ UNCHANGED editorVars

\* the timer of the wait fires: delay *= 2; continue (i++, i <= maxRetries)
TimerFires ==
    /\ retryPc = "wait"
    /\ waits' = Append(waits, delay)
    /\ delay' = delay * 2
    /\ attempt' = attempt + 1
    /\ IF attempt + 1 <= MaxRetries
       THEN /\ retryPc' = "call"
            /\ outcome' = <<>>
       ELSE /\ retryPc' = "threw"
            /\ outcome' = <<Threw(Err(TRUE, 0, "RETRY_LIMIT_REACHED"))>>
    /\ UNCHANGED <<caller, calls>>
    /\ UNCHANGED editorVars

RetryNext ==
    \/ \E text \in Responses : FnResponds(text)
    \/ \E error \in BackendErrors : FnRejects(error)
    \/ TimerFires

RetrySpec == RetryInit /\ [][RetryNext]_vars

\* every call of fn settles and every timer fires
RetryLiveSpec == RetrySpec /\ WF_vars(RetryNext)

\* -------------------------------------------------------------------- checks
SelectedHaveParent ==
    \A i \in DOMAIN selectedElements : nodes[selectedElements[i]].parent # 0

TypeOK ==
    /\ \A i \in DOMAIN selectedElements : selectedElements[i] \in DOMAIN nodes
    /\ liveRoot # 0 => liveRoot \in DOMAIN nodes
    /\ \A n \in DOMAIN nodes :
          /\ nodes[n].parent # 0 => Includes(nodes[nodes[n].parent].children, n)
          /\ \A i \in DOMAIN nodes[n].children : nodes[nodes[n].children[i]].parent = n

\* s without its i-th element
DropAt(s, i) == SubSeq(s, 1, i - 1) \o SubSeq(s, i + 1, Len(s))

\* s with its i-th element replaced by the elements of t
SpliceAt(s, i, t) == SubSeq(s, 1, i - 1) \o t \o SubSeq(s, i + 1, Len(s))

\* sel is a run of consecutive elements of s, in the order of s
IsRunOf(sel, s) ==
    \E i \in 1..Len(s) : i + Len(sel) - 1 <= Len(s) /\ SubSeq(s, i, i + Len(sel) - 1) = sel

\* a group of siblings was made and then undone by the next handler
GroupUndone ==
    /\ lastOp.op = "ungroup"
    /\ lastOp.node # 0
    /\ beforeGroup # <<>>
    /\ Range(beforeGroup[1].selection) \subseteq Range(beforeGroup[1].children)

\* the parent, its children and their order are as before the group
ParentRestored ==
    /\ beforeGroup[1].parent \in DOMAIN nodes
    /\ nodes[beforeGroup[1].parent].children = beforeGroup[1].children
    /\ \A i \in DOMAIN beforeGroup[1].children :
          nodes[beforeGroup[1].children[i]].parent = beforeGroup[1].parent

MutatingOps == {"group", "ungroup", "layout", "delete"}

\* C2: after each mutating operation (one that got past its precondition
\* checks) the canonical text equals the serialization of the mounted scene
\* root.
C2_SerializationSync ==
    (lastOp.op \in MutatingOps /\ lastOp.node # 0 /\ liveRoot # 0)
        => svgContent = <<OuterHTML(nodes, liveRoot)>>

\* C3: group, called on a selection of two or more nodes with the canvas
\* mounted, makes one new layout container (horizontal, gap 16, padding 16)
\* at the place of the first-selected node, holding the selected nodes in
\* selection order, and selects it.
C3_GroupPostcondition ==
    [][(lastOp'.op = "group" /\ Len(selectedElements) >= 2 /\ liveRoot # 0) =>
        LET group == nextId
            firstElem == selectedElements[1]
            parent == nodes[firstElem].parent
            moved(n) == n # firstElem /\ Includes(selectedElements, n)
            stays(n) == ~moved(n)
            before == SelectSeq(nodes[parent].children, stays)
        IN /\ selectedElements' = <<group>>
           /\ group \in DOMAIN nodes'
           /\ nodes'[group].tag = "g" /\ nodes'[group].flex
           /\ nodes'[group].direction = "horizontal"
           /\ nodes'[group].gap = 16 /\ nodes'[group].padding = 16
           /\ nodes'[group].children = selectedElements
           /\ nodes'[group].parent = parent
           /\ nodes'[parent].children =
                 [i \in DOMAIN before |-> IF before[i] = firstElem THEN group
                                          ELSE before[i]]
      ]_vars

C5_ShiftClickRemovesOne ==
    [][(lastOp'.op = "click" /\ lastOp'.shift /\ lastOp'.node # 0
            /\ Includes(selectedElements, lastOp'.node)) =>
        \E i \in DOMAIN selectedElements :
            /\ selectedElements[i] = lastOp'.node
            /\ selectedElements' = DropAt(selectedElements, i)
      ]_vars

C5_Witness ==
    /\ lastOp.op = "click" /\ lastOp.shift /\ lastOp.node # 0
    /\ ~Includes(selectedElements, lastOp.node)
    /\ selectedElements # <<>>

\* C6: a plain click on an eligible node selects exactly that node; a
\* shift-click on an unselected node appends it; a plain click with no
\* eligible node under the pointer clears the selection.
C6_PointerSelection ==
    [][lastOp'.op = "click" =>
        /\ (~lastOp'.shift /\ lastOp'.node # 0) =>
              selectedElements' = <<lastOp'.node>>
        /\ (lastOp'.shift /\ lastOp'.node # 0
                /\ ~Includes(selectedElements, lastOp'.node)) =>
              /\ Len(selectedElements') = Len(selectedElements) + 1
              /\ selectedElements'[Len(selectedElements')] = lastOp'.node
              /\ SubSeq(selectedElements', 1, Len(selectedElements)) = selectedElements
        /\ (~lastOp'.shift /\ lastOp'.node = 0) => selectedElements' = <<>>
      ]_vars

C6_Witness ==
    /\ lastOp.op = "click" /\ lastOp.shift /\ lastOp.node # 0
    /\ Len(selectedElements) = 2
    /\ selectedElements[2] = lastOp.node

\* C7: the selection never holds the same node twice.
C7_NoDuplicates ==
    \A i, j \in DOMAIN selectedElements :
        selectedElements[i] = selectedElements[j] => i = j

\* two copies of one element of the text (one of the tree shown before the
\* last render, one of the mounted tree) are selected: they are two nodes
C7_Witness ==
    /\ Len(selectedElements) = 2
    /\ nodes[selectedElements[1]].name = nodes[selectedElements[2]].name
    /\ Root(nodes, selectedElements[1]) # Root(nodes, selectedElements[2])

\* the offset the layout formula gives the i-th of the children k of
\* container g, measured under mode m: p + the sum over j < i of (size_j + gap)
RECURSIVE FormulaOffset(_, _, _, _, _)
FormulaOffset(N, g, k, i, m) ==
    IF i = 1 THEN Padding(N, g)
    ELSE FormulaOffset(N, g, k, i - 1, m) + Gap(N, g)
         + (IF Direction(N, g) = "horizontal" THEN GetBBox(N, k[i - 1], m)[1].w
            ELSE GetBBox(N, k[i - 1], m)[1].h)

\* every child of container g sits where the formula puts it
AtFormula(N, g, m) ==
    LET k == LayoutChildren(N, g) IN
    \A i \in DOMAIN k :
        N[k[i]].transform =
            IF Direction(N, g) = "horizontal"
            THEN <<FormulaOffset(N, g, k, i, m), Padding(N, g)>>
            ELSE <<Padding(N, g), FormulaOffset(N, g, k, i, m)>>

\* the translation of child c along the axis of container g
Along(N, g, c) ==
    IF Direction(N, g) = "horizontal" THEN N[c].transform[1] ELSE N[c].transform[2]

\* layout has just run on container lastOp.node and could measure its children
LayoutRan ==
    /\ lastOp.op \in {"group", "layout"}
    /\ lastOp.mode \in {"rendered", "zero"}
    /\ nodes[lastOp.node].flex

\* C8 as stated: after layout every child is at the formula position and the
\* translations along the axis are strictly increasing in document order.
C8_LayoutPositionsStrict ==
    LayoutRan =>
        LET g == lastOp.node
            k == LayoutChildren(nodes, g)
        IN /\ AtFormula(nodes, g, lastOp.mode)
           /\ \A i \in 1..(Len(k) - 1) : Along(nodes, g, k[i]) < Along(nodes, g, k[i + 1])

\* C8 as amended: after layout every child is at the formula position; the
\* translations along the axis never decrease in document order, and they
\* increase from a child to the next whenever that child's size plus the gap
\* is positive.
C8_LayoutPositions ==
    LayoutRan =>
        LET g == lastOp.node
            k == LayoutChildren(nodes, g)
            size(c) == IF Direction(nodes, g) = "horizontal"
                       THEN GetBBox(nodes, c, lastOp.mode)[1].w
                       ELSE GetBBox(nodes, c, lastOp.mode)[1].h
        IN /\ AtFormula(nodes, g, lastOp.mode)
           /\ \A i \in 1..(Len(k) - 1) :
                 /\ Along(nodes, g, k[i]) <= Along(nodes, g, k[i + 1])
                 /\ size(k[i]) + Gap(nodes, g) > 0
                       => Along(nodes, g, k[i]) < Along(nodes, g, k[i + 1])

C8_Witness ==
    /\ LayoutRan
    /\ lastOp.op = "group"
    /\ lastOp.mode = "rendered"
    /\ Len(LayoutChildren(nodes, lastOp.node)) >= 2
    /\ Gap(nodes, lastOp.node) > 0

\* layout also ran on a rendered column container
C8_ColumnReached ==
    /\ LayoutRan
    /\ lastOp.mode = "rendered"
    /\ Direction(nodes, lastOp.node) = "vertical"
    /\ Len(LayoutChildren(nodes, lastOp.node)) >= 2

\* C9: after every operation, each child of every layout container of the
\* mounted document sits at the position the layout formula gives.
C9_LayoutCurrent ==
    (lastOp.op \in MutatingOps /\ liveRoot # 0) =>
        \A g \in DOMAIN nodes :
            (Root(nodes, g) = liveRoot /\ nodes[g].flex) => AtFormula(nodes, g, "rendered")

\* C10: when a generated scene is installed, the selection is empty.
C10_SelectionEmptyOnInstall ==
    lastOp.op = "install" => selectedElements = <<>>

\* ------------------------------------------------------ checks of the paints
GradientOps == {"gradient", "updateStop", "addStop", "removeStop"}

PaintServerTags == {"linearGradient", "radialGradient"}

\* the paint-server id of an element of id e
GradOf(e) == <<"grad-" \o e[1]>> \o Tail(e)

\* the elements of the mounted document N, root live
InDocument(N, live) == Range(Descendants(N, live))

\* the definitions containers of the mounted document, and the paint-servers
\* of id gradId in container defs
DefsOf(N, live) == {x \in InDocument(N, live) : N[x].tag = "defs"}
ServersAt(N, defs, gradId) ==
    {x \in Range(Descendants(N, defs)) :
        N[x].tag \in PaintServerTags /\ N[x].id = gradId}

\* what a reference url(#gradId) resolves to: the first element of the
\* document with that id (0 when there is none)
Resolve(N, live, gradId) ==
    LET match(x) == N[x].id = gradId IN First(SelectSeq(Descendants(N, live), match))

\* a handler of the gradient panel has just run with the canvas mounted
GradientApplied == lastOp.op \in GradientOps /\ lastOp.node # 0

C11_FloorReached ==
    /\ lastOp.op = "removeStop"
    /\ lastOp.node = 0
    /\ liveRoot # 0
    /\ Len(gradientProps.stops) = 2

\* C12: every enabled setGradient call (with the canvas mounted) binds the
\* fill of each selected element of id e to the paint-server id grad-e, and
\* the definitions container then holds exactly one paint-server of that id.
C12_PaintIdStability ==
    [][(lastOp'.op \in GradientOps /\ lastOp'.node # 0 /\ gradientProps'.enabled) =>
        \A i \in DOMAIN selectedElements :
           LET el == selectedElements[i]
               defs == QueryTag(nodes', liveRoot', "defs")
           IN nodes[el].id # <<>> =>
                 /\ nodes'[el].fill = Url(GradOf(nodes[el].id))
                 /\ Cardinality(ServersAt(nodes', defs, GradOf(nodes[el].id))) = 1
      ]_vars

\* the same for the elements whose id has no dot in it
C12_PlainIds ==
    [][(lastOp'.op \in GradientOps /\ lastOp'.node # 0 /\ gradientProps'.enabled) =>
        \A i \in DOMAIN selectedElements :
           LET el == selectedElements[i]
               defs == QueryTag(nodes', liveRoot', "defs")
           IN Len(nodes[el].id) = 1 =>
                 /\ nodes'[el].fill = Url(GradOf(nodes[el].id))
                 /\ Cardinality(ServersAt(nodes', defs, GradOf(nodes[el].id))) = 1
      ]_vars

\* C13: an enabled setGradient call records as the original fill of a
\* selected element the fill the element has, unless one is recorded, and
\* then leaves the record alone; a disabled call sets the fill to the record.
C13_OriginalFillRestore ==
    [][(lastOp'.op \in GradientOps /\ lastOp'.node # 0) =>
        \A i \in DOMAIN selectedElements :
           LET el == selectedElements[i] IN
           IF gradientProps'.enabled
           THEN nodes'[el].origFill =
                   IF nodes[el].origFill # <<>> THEN nodes[el].origFill
                   ELSE nodes[el].fill
           ELSE nodes[el].origFill # <<>> => nodes'[el].fill = nodes[el].origFill
      ]_vars

\* the same for the elements that have a fill when the gradient is enabled
C13_FilledElements ==
    [][(lastOp'.op \in GradientOps /\ lastOp'.node # 0) =>
        \A i \in DOMAIN selectedElements :
           LET el == selectedElements[i] IN
           IF gradientProps'.enabled
           THEN nodes[el].fill # <<>> =>
                   nodes'[el].origFill =
                      IF nodes[el].origFill # <<>> THEN nodes[el].origFill
                      ELSE nodes[el].fill
           ELSE nodes[el].origFill # <<>> => nodes'[el].fill = nodes[el].origFill
      ]_vars

\* a gradient was enabled on an element with a fill and then disabled: the
\* element has its first fill again
C13_Restored ==
    /\ lastOp.op = "gradient" /\ lastOp.node # 0 /\ lastOp.mode = "enabled"
    /\ ~gradientProps.enabled
    /\ nodes[selectedElements[1]].origFill = Color("red")
    /\ nodes[selectedElements[1]].fill = Color("red")

\* the fill of el refers to a paint-server of the mounted document N, in
\* its definitions container, of the kind and with the stops of descriptor g
BoundTo(N, live, el, g) ==
    /\ N[el].fill # <<>>
    /\ N[el].fill[1] = "url"
    /\ LET x == Resolve(N, live, N[el].fill[2])
           defs == QueryTag(N, live, "defs")
       IN /\ x # 0
          /\ defs # 0
          /\ x \in Range(Descendants(N, defs))
          /\ N[x].tag = (IF g.type = "linear" THEN "linearGradient" ELSE "radialGradient")
          /\ N[x].stops = [k \in DOMAIN g.stops |->
                             [offset |-> <<g.stops[k].offset, "%">>,
                              color |-> g.stops[k].color]]

\* C14: after a setGradient call with an enabled descriptor (canvas mounted),
\* the fill of every selected element refers to a paint-server of the
\* definitions container that has the descriptor's kind and exactly the
\* descriptor's stops, in order.
C14_SetGradientPostcondition ==
    (GradientApplied /\ gradientProps.enabled) =>
        \A i \in DOMAIN selectedElements :
            BoundTo(nodes, liveRoot, selectedElements[i], gradientProps)

\* the same for the selections without an element whose id has a dot in it
C14_PlainIds ==
    (GradientApplied /\ gradientProps.enabled
        /\ \A i \in DOMAIN selectedElements : Len(nodes[selectedElements[i]].id) <= 1) =>
        \A i \in DOMAIN selectedElements :
            BoundTo(nodes, liveRoot, selectedElements[i], gradientProps)

\* C15: after a setGradient call (canvas mounted) the document has exactly
\* one definitions container, every paint-server is in it, and no two
\* paint-servers have the same id.
C15_DefinitionsIntegrity ==
    GradientApplied =>
        LET servers == {x \in InDocument(nodes, liveRoot) :
                           nodes[x].tag \in PaintServerTags}
        IN /\ Cardinality(DefsOf(nodes, liveRoot)) = 1
           /\ \A x \in servers : nodes[nodes[x].parent].tag = "defs"
           /\ \A x, y \in servers : nodes[x].id = nodes[y].id => x = y

\* the same while no element whose id has a dot in it was given a gradient
C15_PlainIds ==
    (GradientApplied
        /\ \A x \in InDocument(nodes, liveRoot) :
              Len(nodes[x].id) > 1 => nodes[x].origFill = <<>>) =>
        LET servers == {x \in InDocument(nodes, liveRoot) :
                           nodes[x].tag \in PaintServerTags}
        IN /\ Cardinality(DefsOf(nodes, liveRoot)) = 1
           /\ \A x \in servers : nodes[nodes[x].parent].tag = "defs"
           /\ \A x, y \in servers : nodes[x].id = nodes[y].id => x = y


\* ------------------------------------------------------ checks of the delete
\* the names of the elements of the subtree of n
SubtreeNames(N, n) == {N[n].name} \cup {N[x].name : x \in Range(Descendants(N, n))}

\* text doc without the subtrees of the elements named in names
RECURSIVE Prune(_, _)
Prune(doc, names) ==
    LET stays(k) == k.name \notin names
        kept == SelectSeq(doc.kids, stays)
    IN [doc EXCEPT !.kids = [i \in DOMAIN kept |-> Prune(kept[i], names)]]

\* the names of the elements of text doc
RECURSIVE TextNames(_)
TextNames(doc) == {doc.name} \cup UNION {TextNames(doc.kids[i]) : i \in DOMAIN doc.kids}

\* the names of the elements Delete Selected is to remove
Doomed == UNION {SubtreeNames(nodes, selectedElements[i]) : i \in DOMAIN selectedElements}

\* C16: Delete Selected empties the selection; the canonical text after it
\* is the text before it without the subtrees of the selected elements and
\* with every other element in place and in order, and the mounted document
\* is the document of that text.
C16_DeletePostcondition ==
    [][lastOp'.op = "delete" =>
        /\ selectedElements' = <<>>
        /\ svgContent # <<>>
        /\ svgContent' # <<>>
        /\ svgContent'[1].doc = Prune(svgContent[1].doc, Doomed)
        /\ TextNames(svgContent'[1].doc) \cap Doomed = {}
        /\ liveRoot' # 0 => Serialize(nodes', liveRoot') = svgContent'[1].doc
      ]_vars

\* the same for a selection of elements of the mounted document, the text
\* being that of the mounted document
C16_MountedSelection ==
    [][(lastOp'.op = "delete"
          /\ svgContent # <<>>
          /\ liveRoot # 0
          /\ Serialize(nodes, liveRoot) = svgContent[1].doc
          /\ \A i \in DOMAIN selectedElements :
                Root(nodes, selectedElements[i]) = liveRoot) =>
        /\ selectedElements' = <<>>
        /\ svgContent # <<>>
        /\ svgContent' # <<>>
        /\ svgContent'[1].doc = Prune(svgContent[1].doc, Doomed)
        /\ TextNames(svgContent'[1].doc) \cap Doomed = {}
        /\ liveRoot' # 0 => Serialize(nodes', liveRoot') = svgContent'[1].doc
      ]_vars

\* a container of the mounted document was deleted with its children
C16_ContainerDeleted ==
    /\ lastOp.op = "delete"
    /\ svgContent # <<>>
    /\ liveRoot # 0
    /\ Serialize(nodes, liveRoot) = svgContent[1].doc
    /\ TextNames(svgContent[1].doc) = {"root"}


\* ----------------------------------------------- checks of the preconditions
\* C17: Auto Layout with fewer than two elements selected, and Ungroup with a
\* selection that is not exactly one container, change neither the document
\* nor the selection nor the canonical text, and set no error state.
C17_PreconditionNoOps ==
    [][(\/ lastOp'.op = "group" /\ Len(selectedElements) < 2
        \/ lastOp'.op = "ungroup"
              /\ ~(Len(selectedElements) = 1 /\ nodes[selectedElements[1]].tag = "g")) =>
        /\ nodes' = nodes
        /\ liveRoot' = liveRoot
        /\ selectedElements' = selectedElements
        /\ svgContent' = svgContent
        /\ quotaError' = quotaError
        /\ systemError' = systemError
      ]_vars

\* Auto Layout was pressed with one element of the mounted document selected
C17_Witness ==
    /\ lastOp.op = "group"
    /\ lastOp.node = 0
    /\ liveRoot # 0
    /\ Len(selectedElements) = 1
    /\ Root(nodes, selectedElements[1]) = liveRoot

\* Ungroup was pressed with one shape selected, and with two elements selected
C17_UngroupOfShape ==
    /\ lastOp.op = "ungroup"
    /\ lastOp.node = 0
    /\ Len(selectedElements) = 1
    /\ nodes[selectedElements[1]].tag # "g"

C17_UngroupOfTwo ==
    /\ lastOp.op = "ungroup"
    /\ lastOp.node = 0
    /\ Len(selectedElements) = 2


\* ------------------------------------------------------- checks of withRetry
\* the last element of a non-empty sequence
Last(s) == s[Len(s)]

\* withRetry has returned or thrown
Settled == retryPc \in {"returned", "threw"}

\* fn has just been called and has settled with result
CallSettles == calls' # calls

\* an error of the quota kind (status 429, or RESOURCE_EXHAUSTED in its
\* message) that is not also an entity-not-found error
QuotaOnly(e) ==
    /\ e.status = 429 \/ MessageIncludes(e.message, "RESOURCE_EXHAUSTED")
    /\ ~MessageIncludes(e.message, EntityMessage)

\* C18: withRetry calls fn at most maxRetries + 1 = 3 times; a quota error
\* of a call before the last is followed by a wait and one more call, the
\* waits being 2000 ms and then 4000 ms; a quota error of the last call is
\* rethrown; a result is returned at once, with no further call; and
\* withRetry ends, every call settling and every timer firing.
C18_BoundedQuotaRetry ==
    /\ [](Len(calls) <= 3)
    /\ [](Len(waits) <= 2 /\ waits = SubSeq(<<2000, 4000>>, 1, Len(waits)))
    /\ [][CallSettles =>
            /\ Len(calls') = Len(calls) + 1
            /\ Len(waits) = Len(calls)
            /\ Last(calls').ok =>
                  retryPc' = "returned" /\ outcome' = <<Last(calls')>>
            /\ (~Last(calls').ok /\ QuotaOnly(Last(calls').error)) =>
                  IF Len(calls') < 3
                  THEN retryPc' = "wait"
                  ELSE retryPc' = "threw" /\ outcome' = <<Last(calls')>>
         ]_vars
    /\ [][retryPc = "wait" =>
            retryPc' = "call" /\ Len(waits') = Len(waits) + 1 /\ calls' = calls
         ]_vars
    /\ [][Settled => calls' = calls /\ waits' = waits /\ outcome' = outcome]_vars
    /\ <>Settled

\* three calls met a quota error: two waits, and the third error is thrown
C18_Witness ==
    /\ retryPc = "threw"
    /\ Len(calls) = 3
    /\ \A i \in 1..3 : ~calls[i].ok /\ QuotaOnly(calls[i].error)
    /\ waits = <<2000, 4000>>
    /\ outcome = <<calls[3]>>

\* a result came after one quota error and one wait
C18_ReturnedAfterRetry ==
    /\ retryPc = "returned"
    /\ Len(calls) = 2
    /\ waits = <<2000>>
    /\ outcome = <<calls[2]>>

\* an entity-not-found error, and an error of the quota kind
EntityNotFound(e) == MessageIncludes(e.message, EntityMessage)
QuotaKind(e) ==
    \/ e.status = 429
    \/ MessageIncludes(e.message, "429")
    \/ MessageIncludes(e.message, "RESOURCE_EXHAUSTED")

\* C19: a call of fn that fails with an entity-not-found error makes
\* withRetry throw ENTITY_NOT_FOUND with no further call, also when the error
\* is of the quota kind too; a call that fails with an error of neither kind
\* (SVG_PARSE_FAILED among them) makes withRetry throw that very error, with
\* no further call.
C19_OnlyQuotaRetried ==
    /\ [][(CallSettles /\ ~Last(calls').ok) =>
            LET e == Last(calls').error IN
            /\ EntityNotFound(e) =>
                  /\ retryPc' = "threw"
                  /\ outcome' = <<Threw(Err(TRUE, 0, "ENTITY_NOT_FOUND"))>>
            /\ (~EntityNotFound(e) /\ ~QuotaKind(e)) =>
                  /\ retryPc' = "threw"
                  /\ outcome' = <<Threw(e)>>
         ]_vars
    /\ [][Settled => calls' = calls]_vars

\* the same for the entity-not-found errors that are plain objects
C19_PlainObjects ==
    /\ [][(CallSettles /\ ~Last(calls').ok) =>
            LET e == Last(calls').error IN
            /\ (EntityNotFound(e) /\ ~e.instance) =>
                  /\ retryPc' = "threw"
                  /\ outcome' = <<Threw(Err(TRUE, 0, "ENTITY_NOT_FOUND"))>>
            /\ (~EntityNotFound(e) /\ ~QuotaKind(e)) =>
                  /\ retryPc' = "threw"
                  /\ outcome' = <<Threw(e)>>
         ]_vars
    /\ [][Settled => calls' = calls]_vars

\* an error of both kinds came after a retry and ENTITY_NOT_FOUND was thrown
C19_EntityAfterRetry ==
    /\ retryPc = "threw"
    /\ Len(calls) = 2
    /\ calls[2] = Threw(Err(FALSE, 429, EntityQuotaMessage))
    /\ outcome = <<Threw(Err(TRUE, 0, "ENTITY_NOT_FOUND"))>>

\* a response without an svg document: SVG_PARSE_FAILED thrown after one call
C19_ParseFailed ==
    /\ retryPc = "threw"
    /\ Len(calls) = 1
    /\ outcome = <<Threw(Err(TRUE, 0, "SVG_PARSE_FAILED"))>>

\* ---------------------------------------------------- checks of generation
\* C20: no step of a generation request but the install changes the
\* canonical text: the request, the brief and a failure of either call, for
\* any error, leave svgContent as it was; a text is installed only when the
\* brief call returned and the vector call returned an svg document, and the
\* text installed is that document.
C20_NoPartialScene ==
    /\ [][lastOp'.op \in {"generate", "brief", "failed"} =>
            svgContent' = svgContent]_vars
    /\ [][lastOp'.op = "install" =>
            /\ genPc = "svg"
            /\ svgContent' # <<>>
            /\ svgContent'[1] \in Texts]_vars

\* the vector call failed on a response without an svg document while a
\* document was installed
C20_Witness ==
    /\ lastOp.op = "failed"
    /\ genPc = "idle"
    /\ ~isGenerating
    /\ systemError = <<"SVG_PARSE_FAILED">>
    /\ svgContent # <<>>

\* the brief call failed on the quota while a document was installed
C20_BriefFailed ==
    /\ lastOp.op = "failed"
    /\ quotaError
    /\ svgContent # <<>>

\* ------------------------------------------- checks of the gradient panel
\* a click has just set the selection
SelectionChanged == lastOp'.op = "click"

\* C22: after a setGradient call with a disabled descriptor (canvas mounted)
\* no selected element has a recorded original fill.
C22_DisablingClearsRecord ==
    [][(lastOp'.op \in GradientOps /\ lastOp'.node # 0 /\ ~gradientProps'.enabled) =>
        \A i \in DOMAIN selectedElements :
            nodes'[selectedElements[i]].origFill = <<>>
      ]_vars

\* C23: after a selection change whose first selected element has a fill
\* that is no paint-server reference, or a reference that nothing in the
\* document answers to, the gradient panel is disabled.
C23_UnresolvedDisables ==
    [][(SelectionChanged /\ selectedElements' # <<>>) =>
        LET fill == nodes'[selectedElements'[1]].fill IN
        (\/ fill = <<>>
         \/ fill[1] # "url"
         \/ liveRoot' = 0
         \/ Resolve(nodes', liveRoot', fill[2]) = 0) => ~gradientProps'.enabled
      ]_vars

\* the same for the fills that are no paint-server reference
C23_NoReference ==
    [][(SelectionChanged /\ selectedElements' # <<>>) =>
        LET fill == nodes'[selectedElements'[1]].fill IN
        (fill = <<>> \/ fill[1] # "url") => ~gradientProps'.enabled
      ]_vars

\* an element with a plain fill was selected while the panel was enabled
C23_Disabled ==
    /\ lastOp.op = "click"
    /\ selectedElements # <<>>
    /\ nodes[selectedElements[1]].fill = Color("blue")
    /\ \E x \in InDocument(nodes, liveRoot) : nodes[x].tag \in PaintServerTags
    /\ ~gradientProps.enabled

\* C24: a selection change leaves the angle of the gradient panel as it was.
C24_AnglePreserved ==
    [][SelectionChanged => gradientProps'.angle = gradientProps.angle]_vars

\* the same for the selections whose first fill is not resolved
C24_Underived ==
    [][(SelectionChanged /\ ~gradientProps'.enabled) =>
        gradientProps'.angle = gradientProps.angle]_vars

\* x1, y1, x2, y2 of the claim for the angles of the panel here
EndPoints(t) ==
    CASE t = 0 -> <<0, 50, 100, 100>>
      [] t = 45 -> <<15, 15, 85, 85>>
      [] t = 90 -> <<50, 0, 50, 50>>

\* the geometry of the claim for descriptor g
ClaimedGeometry(g) ==
    IF g.type = "linear"
    THEN [x1 |-> <<EndPoints(g.angle)[1], "%">>, y1 |-> <<EndPoints(g.angle)[2], "%">>,
          x2 |-> <<EndPoints(g.angle)[3], "%">>, y2 |-> <<EndPoints(g.angle)[4], "%">>]
    ELSE [cx |-> <<50, "%">>, cy |-> <<50, "%">>, r |-> <<50, "%">>]

\* the paint-servers the fill of el refers to
ServersOf(el) ==
    IF nodes[el].fill # <<>> /\ nodes[el].fill[1] = "url"
    THEN ServersAt(nodes, QueryTag(nodes, liveRoot, "defs"), nodes[el].fill[2])
    ELSE {}

\* C28: after a setGradient call with an enabled descriptor (canvas mounted)
\* the paint-server of every selected element has, for a linear descriptor
\* of angle t, x1 = round(50 - 50 cos t)%, y1 = round(50 - 50 sin t)%,
\* x2 = y2 = round(50 + 50 cos t)%, which is 50, 0, 50, 50 at 90 and
\* 0, 50, 100, 100 at 0; for a radial descriptor cx = cy = r = 50%.
C28_EndpointFormula ==
    (GradientApplied /\ gradientProps.enabled) =>
        \A i \in DOMAIN selectedElements :
            \E x \in ServersOf(selectedElements[i]) :
                /\ nodes[x].geom = ClaimedGeometry(gradientProps)
                /\ gradientProps.type = "linear" => nodes[x].geom.y2 = nodes[x].geom.x2

C28_Witness ==
    /\ GradientApplied
    /\ gradientProps.enabled
    /\ gradientProps.type = "linear"
    /\ gradientProps.angle = 0
    /\ \E x \in ServersOf(selectedElements[1]) :
          nodes[x].geom.x1 = <<0, "%">> /\ nodes[x].geom.y2 = <<100, "%">>

\* a linear paint-server at the panel's first angle, and a radial one
C28_AtNinety ==
    /\ GradientApplied
    /\ gradientProps.enabled
    /\ gradientProps.type = "linear"
    /\ gradientProps.angle = 90
    /\ \E x \in ServersOf(selectedElements[1]) : nodes[x].geom.y2 = <<50, "%">>

C28_Radial ==
    /\ GradientApplied
    /\ gradientProps.enabled
    /\ gradientProps.type = "radial"
    /\ \E x \in ServersOf(selectedElements[1]) : nodes[x].geom.r = <<50, "%">>

\* --------------------------------------------- checks of the layout panel
\* a handler has just set the selection: a click, Delete Selected, Clear,
\* a generation request, or an Auto Layout or Ungroup that went through
SelectionSet ==
    \/ lastOp'.op \in {"click", "delete", "clear", "generate"}
    \/ lastOp'.op \in {"group", "ungroup"} /\ lastOp'.node # 0 /\ lastOp'.mode # "threw"

\* the layout panel the claim gives for selection sel of elements N
ClaimedLayoutPanel(N, sel, panel) ==
    IF Len(sel) = 1 /\ N[sel[1]].tag = "g" /\ N[sel[1]].flex
    THEN panel = [enabled |-> TRUE,
                  direction |-> IF N[sel[1]].direction = "" THEN "horizontal"
                                ELSE N[sel[1]].direction,
                  gap |-> IF N[sel[1]].gap = NoAttr THEN 16 ELSE N[sel[1]].gap,
                  padding |-> IF N[sel[1]].padding = NoAttr THEN 16
                              ELSE N[sel[1]].padding]
    ELSE ~panel.enabled

\* C25: after every selection change the layout panel is enabled exactly
\* when the selection is one container with the layout marker, and then its
\* direction, gap and padding are the container's (horizontal, 16 and 16
\* for a missing attribute); in every other case, the empty selection
\* included, the panel is disabled.  A click changes no element and no text.
C25_LayoutPanelDerivation ==
    /\ [][SelectionSet =>
            ClaimedLayoutPanel(nodes', selectedElements', layoutProps')]_vars
    /\ [][lastOp'.op = "click" =>
            /\ svgContent' = svgContent
            /\ \A n \in DOMAIN nodes' : n \in DOMAIN nodes /\ nodes'[n] = nodes[n]]_vars

\* the same for the selection changes that leave an element selected
C25_NonEmptySelection ==
    /\ [][(SelectionSet /\ selectedElements' # <<>>) =>
            ClaimedLayoutPanel(nodes', selectedElements', layoutProps')]_vars
    /\ [][lastOp'.op = "click" =>
            /\ svgContent' = svgContent
            /\ \A n \in DOMAIN nodes' : n \in DOMAIN nodes /\ nodes'[n] = nodes[n]]_vars

\* a layout container without direction attribute was selected
C25_ContainerSelected ==
    /\ lastOp.op = "click"
    /\ Len(selectedElements) = 1
    /\ nodes[selectedElements[1]].flex
    /\ nodes[selectedElements[1]].direction = ""
    /\ layoutProps = [enabled |-> TRUE, direction |-> "horizontal", gap |-> 0,
                      padding |-> 1]

\* ------------------------------------------------ checks of the measuring
\* C26: when the layout runs, a child that cannot be measured keeps its
\* transform, and the children that can be measured are placed as the
\* formula places them in a container holding only them: the unmeasurable
\* child neither stops the layout nor moves the offset.
C26_MeasurementFailureAbsorbed ==
    [][lastOp'.op = "layout" =>
        LET g == lastOp'.node
            m == lastOp'.mode
            k == LayoutChildren(nodes, g)
            measurable(c) == GetBBox(nodes, c, m) # <<>>
            measured == SelectSeq(k, measurable)
        IN /\ LayoutChildren(nodes', g) = k
           /\ \A i \in DOMAIN k :
                 ~measurable(k[i]) => nodes'[k[i]].transform = nodes[k[i]].transform
           /\ \A i \in DOMAIN measured :
                 nodes'[measured[i]].transform =
                    IF Direction(nodes', g) = "horizontal"
                    THEN <<FormulaOffset(nodes', g, measured, i, m), Padding(nodes', g)>>
                    ELSE <<Padding(nodes', g), FormulaOffset(nodes', g, measured, i, m)>>
      ]_vars

\* the layout ran on a rendered container of gap 2 whose second child is a
\* metadata element, and placed the third child after the first (a line, of
\* width 0)
C26_Witness ==
    /\ lastOp.op = "layout"
    /\ lastOp.mode = "rendered"
    /\ LET k == LayoutChildren(nodes, lastOp.node) IN
       /\ Len(k) = 3
       /\ nodes[k[1]].tag = "line"
       /\ nodes[k[2]].tag = "metadata"
       /\ nodes[k[3]].tag = "rect"
       /\ Gap(nodes, lastOp.node) = 2
       /\ nodes[k[2]].transform = <<>>
       /\ nodes[k[1]].transform = <<1, 1>>
       /\ nodes[k[3]].transform = <<3, 1>>

\* ------------------------------------------------ checks of the bounding box
\* the box of selected element el in the user space of its parent: its own
\* box moved by its translation
PlacedBox(el) == Shift(RenderedBBox(nodes, el), nodes[el].transform)

\* the union box of the selection: <<>> when nothing is selected
ClaimedBbox ==
    IF selectedElements = <<>> THEN <<>>
    ELSE LET B == {PlacedBox(selectedElements[i]) : i \in DOMAIN selectedElements}
             minX == CHOOSE v \in {b.x : b \in B} : \A b \in B : v <= b.x
             minY == CHOOSE v \in {b.y : b \in B} : \A b \in B : v <= b.y
             maxX == CHOOSE v \in {b.x + b.w : b \in B} : \A b \in B : v >= b.x + b.w
             maxY == CHOOSE v \in {b.y + b.h : b \in B} : \A b \in B : v >= b.y + b.h
         IN <<Box(minX, minY, maxX - minX, maxY - minY)>>

\* C21: after every operation the bounding box is the union of the boxes of
\* the selected elements, each moved by its translation, and is absent when
\* nothing is selected; also after updateLayoutProperty has moved the
\* children of the selected container.
C21_BboxNeverDrifts ==
    lastOp.op # "init" => bbox = ClaimedBbox

\* the same just after a click that selects elements of the mounted document
C21_AfterClick ==
    (/\ lastOp.op = "click"
     /\ \A i \in DOMAIN selectedElements :
           Root(nodes, selectedElements[i]) = liveRoot) => bbox = ClaimedBbox

\* two elements of the mounted document were selected and boxed
C21_TwoBoxed ==
    /\ lastOp.op = "click"
    /\ Len(selectedElements) = 2
    /\ \A i \in DOMAIN selectedElements : Root(nodes, selectedElements[i]) = liveRoot
    /\ bbox # <<>>
    /\ bbox[1].w > RenderedBBox(nodes, selectedElements[1]).w


\* -------------------------------------------------------- checks of the shadow
\* the effect style f is a drop-shadow with the values of descriptor sp
IsShadowOf(f, sp) ==
    /\ f # <<>>
    /\ \E colorFirst \in BOOLEAN :
          f[1] = DropShadow(sp.x, sp.y, sp.blur, HexToRgba(sp.color, sp.opacity),
                            colorFirst)

\* updateShadowProperty ran and left the descriptor that the next state holds
ShadowApplied == lastOp'.op = "shadow"

\* the names of the selected elements
SelectedNames == {nodes[selectedElements[i]].name : i \in DOMAIN selectedElements}

\* just after updateShadowProperty, a click selects one of the elements it
\* was applied to
Reselected ==
    /\ lastOp.op = "shadow"
    /\ lastOp'.op = "click"
    /\ Len(selectedElements') = 1
    /\ nodes'[selectedElements'[1]].name \in SelectedNames

SamePanel(sp, applied) ==
    /\ sp.enabled = applied.enabled
    /\ applied.enabled => sp.x = applied.x /\ sp.y = applied.y /\ sp.blur = applied.blur

\* updateShadowProperty sets the effect style of every selected element to a
\* drop-shadow with the values of the new descriptor and the alpha-blended
\* colour, or clears it when the new descriptor is disabled
C27_Applied ==
    [][ShadowApplied =>
         \A i \in DOMAIN selectedElements :
            IF shadowProps'.enabled
            THEN IsShadowOf(nodes'[selectedElements[i]].filter, shadowProps')
            ELSE nodes'[selectedElements[i]].filter = <<>>]_vars

\* re-selecting one of the elements after updateShadowProperty yields the
\* panel with the applied enabled, x, y and blur
C27_ReadBack ==
    [][Reselected => SamePanel(shadowProps', shadowProps)]_vars

\* C27: updateShadowProperty with an enabled descriptor gives every selected
\* element a drop-shadow with the descriptor's x, y, blur and blended colour,
\* and re-selecting any of those elements yields a panel with enabled = true
\* and the applied x, y and blur; with a disabled descriptor it clears the
\* effect style, and re-selecting yields enabled = false.
C27_ShadowRoundTrip == C27_Applied /\ C27_ReadBack

\* the effect style reached the mounted document: the mounted element of
\* each selected element's name has the effect style of the selected one
ShadowMounted ==
    \A i \in DOMAIN selectedElements :
       \E n \in DOMAIN nodes :
          /\ Root(nodes, n) = liveRoot
          /\ nodes[n].name = nodes[selectedElements[i]].name
          /\ nodes[n].filter = nodes[selectedElements[i]].filter

\* the read-back after an updateShadowProperty that reached the mounted
\* document
C27_ReadBackMounted ==
    [][(Reselected /\ ShadowMounted) => SamePanel(shadowProps', shadowProps)]_vars

\* the panel of a freshly selected element shows the shadow the element has,
\* when the effect style is serialized with the lengths first
C27_PanelShowsShadow ==
    (/\ lastOp.op = "click"
     /\ Len(selectedElements) = 1
     /\ nodes[selectedElements[1]].filter # <<>>
     /\ MatchShadow(nodes[selectedElements[1]].filter[1]) # <<>>)
    => LET match == MatchShadow(nodes[selectedElements[1]].filter[1])[1] IN
       /\ shadowProps.enabled
       /\ shadowProps.x = match.x /\ shadowProps.y = match.y
       /\ shadowProps.blur = match.blur

\* an element whose effect style is serialized with the colour first is
\* selected, and the panel shows no shadow
C27_ShadowNotRead ==
    /\ lastOp.op = "click"
    /\ Len(selectedElements) = 1
    /\ Root(nodes, selectedElements[1]) = liveRoot
    /\ nodes[selectedElements[1]].filter # <<>>
    /\ ~shadowProps.enabled

\* a shadow was applied with x = 3 and read back by a click
C27_ReadBackDone ==
    /\ lastOp.op = "click"
    /\ Len(selectedElements) = 1
    /\ nodes[selectedElements[1]].filter # <<>>
    /\ shadowProps.enabled
    /\ shadowProps.x = 3

\* ----------------------------------------------------- checks of a generation
\* generateSVGDesign is called in this step
VectorStarted ==
    /\ inFlight' # inFlight
    /\ \E i \in DOMAIN inFlight' : inFlight'[i].fn = "generateSVGDesign"

\* generateDesignBrief throws in this step
BriefFails == genPc = "brief" /\ lastOp'.op = "failed"

\* C29: generateSVGDesign is called only in the step in which
\* generateDesignBrief has returned, and with the brief it returned; when
\* generateDesignBrief throws the request ends with no call in flight; and
\* at most one call of the request is in flight at any time.
C29_GenerationOrdering ==
    /\ [](Len(inFlight) <= 1)
    /\ [][VectorStarted =>
            /\ genPc = "brief"
            /\ inFlight = <<[fn |-> "generateDesignBrief", arg |-> <<>>]>>
            /\ lastOp'.op = "brief"
            /\ inFlight' = <<[fn |-> "generateSVGDesign", arg |-> <<lastOp'.mode>>]>>
            /\ brief' = <<lastOp'.mode>>
         ]_vars
    /\ [][BriefFails => inFlight' = <<>> /\ genPc' = "idle" /\ ~isGenerating']_vars

\* generateSVGDesign is in flight with the empty brief, in a second request
C29_Witness ==
    /\ genPc = "svg"
    /\ svgContent # <<>>
    /\ inFlight = <<[fn |-> "generateSVGDesign", arg |-> <<"{}">>]>>

\* a request ended when generateDesignBrief threw
C29_BriefFailed ==
    /\ lastOp.op = "failed"
    /\ brief = <<>>
    /\ inFlight = <<>>

\* ------------------------------------------- checks of the invalid session
\* the call awaited by handleGenerate throws, in this step, an error that
\* is ENTITY_NOT_FOUND or carries the backend's entity-not-found message
EntityFailure ==
    /\ lastOp'.op = "failed"
    /\ \/ lastOp'.mode = "ENTITY_NOT_FOUND"
       \/ MessageIncludes(lastOp'.mode, EntityMessage)

\* the generation is abandoned: no text installed, no call left or made
Abandoned ==
    /\ svgContent' = svgContent
    /\ genPc' = "idle"
    /\ inFlight' = <<>>

\* C30: when either backend call of a generation request fails with an
\* entity-not-found error, handleGenerate abandons the generation, sets the
\* session-invalid system error, marks the API key as not selected, invokes
\* the key-selection flow and does not set the quota flag.
C30_InvalidSession ==
    [][EntityFailure =>
         /\ Abandoned
         /\ systemError' = <<SessionInvalid>>
         /\ ~isApiKeySelected'
         /\ keyPc' = "open" \/ systemError' = <<KeyUnsupported>>
         /\ ~quotaError'
      ]_vars

\* the same for the error that withRetry turned into ENTITY_NOT_FOUND: the
\* key is marked not selected and handleSelectKey runs, which awaits
\* openSelectKey or, without window.aistudio, replaces the system error
C30_WhenRecognised ==
    [][(lastOp'.op = "failed" /\ lastOp'.mode = "ENTITY_NOT_FOUND") =>
         /\ Abandoned
         /\ ~isApiKeySelected'
         /\ ~quotaError'
         /\ \/ keyPc' = "open" /\ systemError' = <<SessionInvalid>>
            \/ keyPc' = keyPc /\ systemError' = <<KeyUnsupported>>
      ]_vars

\* the vector call failed with ENTITY_NOT_FOUND and openSelectKey is awaited
C30_KeyFlowOpen ==
    /\ lastOp.op = "failed"
    /\ lastOp.mode = "ENTITY_NOT_FOUND"
    /\ brief # <<>>
    /\ keyPc = "open"
    /\ ~isApiKeySelected
    /\ systemError = <<SessionInvalid>>

\* the entity-not-found error reached handleGenerate as the backend's Error
\* object and was shown as an ordinary failure
C30_Unrecognised ==
    /\ lastOp.op = "failed"
    /\ systemError = <<EntityMessage>>
    /\ isApiKeySelected
    /\ keyPc = "idle"

\* ---------------------------------------------------- checks of the selection
\* element el is in the document mounted in the canvas
Live(el) == liveRoot # 0 /\ Root(nodes, el) = liveRoot

\* C31: in every state every selected element is a node of the document
\* mounted in the canvas, never of a replaced, unmounted or detached tree:
\* across the re-render after a mutation, a switch of tab and the install of
\* a new document.
C31_SelectionLive ==
    \A i \in DOMAIN selectedElements : Live(selectedElements[i])

\* the same just after a click without the shift key
C31_AfterPlainClick ==
    (lastOp.op = "click" /\ ~lastOp.shift) => C31_SelectionLive

\* the consequence: an enabled shadow applied to the selection is in the
\* text that the canvas is rendered from
C31_ShadowInText ==
    [][(ShadowApplied /\ shadowProps'.enabled) =>
         \A i \in DOMAIN selectedElements :
            \E j \in DOMAIN svgContent'[1].doc.kids :
               /\ svgContent'[1].doc.kids[j].name = nodes[selectedElements[i]].name
               /\ IsShadowOf(svgContent'[1].doc.kids[j].filter, shadowProps')
      ]_vars

\* a plain click selected an element of a document that had been re-rendered
C31_Reselected ==
    /\ lastOp.op = "click"
    /\ ~lastOp.shift
    /\ selectedElements # <<>>
    /\ svgContent # <<>>
    /\ ~svgContent[1].raw

\* the selection is of a tree that the canvas no longer shows, after a
\* mutation, after a switch to the code tab, after an install
C31_StaleAfterEdit ==
    /\ lastOp.op = "layout"
    /\ selectedElements # <<>>
    /\ liveRoot # 0
    /\ ~C31_SelectionLive

C31_StaleInCodeTab ==
    /\ lastOp.op = "tab"
    /\ activeTab = "code"
    /\ selectedElements # <<>>

C31_StaleAfterInstall ==
    /\ lastOp.op = "install"
    /\ selectedElements # <<>>
    /\ ~C31_SelectionLive

\* ----------------------------------------- checks of repeated setGradient
\* the paint-servers of the mounted document
PaintServers(N, live) == {x \in InDocument(N, live) : N[x].tag \in PaintServerTags}

\* the paint-servers of the mounted document that no fill refers to
Unreferenced(N, live) ==
    {x \in PaintServers(N, live) :
        \A e \in InDocument(N, live) : N[e].fill # Url(N[x].id)}

\* updateGradientProperty runs, with the canvas mounted, right after it ran
\* with the canvas mounted, and the enabled descriptor it applies is the one
\* applied before
SameGradientAgain ==
    /\ lastOp.op \in GradientOps /\ lastOp.node # 0
    /\ lastOp'.op \in GradientOps /\ lastOp'.node # 0
    /\ gradientProps.enabled
    /\ gradientProps' = gradientProps

\* C32: applying the same enabled descriptor to the same selection a second
\* time leaves as many paint-servers in the document as the first time, and
\* leaves no paint-server without a fill that refers to it, for elements with
\* an id and for elements without one.
C32_GradientIdempotent ==
    [][SameGradientAgain =>
         /\ selectedElements' = selectedElements
         /\ Cardinality(PaintServers(nodes', liveRoot')) =
               Cardinality(PaintServers(nodes, liveRoot))
         /\ Cardinality(Unreferenced(nodes', liveRoot')) =
               Cardinality(Unreferenced(nodes, liveRoot))
      ]_vars

\* the same for a selection of elements whose id is a plain name
C32_PlainIds ==
    [][(SameGradientAgain
        /\ \A i \in DOMAIN selectedElements : Len(nodes[selectedElements[i]].id) = 1) =>
         /\ Cardinality(PaintServers(nodes', liveRoot')) =
               Cardinality(PaintServers(nodes, liveRoot))
         /\ Cardinality(Unreferenced(nodes', liveRoot')) =
               Cardinality(Unreferenced(nodes, liveRoot))
      ]_vars

\* the kind button of the current kind was pressed on a selected element of
\* id "a", after the gradient was enabled on it
C32_AppliedTwice ==
    /\ lastOp.op = "gradient"
    /\ lastOp.mode = "type"
    /\ lastOp.node # 0
    /\ gradientProps.enabled
    /\ gradientProps.type = "linear"
    /\ nodes[selectedElements[1]].id = <<"a">>
    /\ Cardinality(PaintServers(nodes, liveRoot)) = 1

\* the second application left a paint-server that no fill refers to
C32_Orphan ==
    /\ lastOp.op = "gradient"
    /\ lastOp.mode = "type"
    /\ Cardinality(PaintServers(nodes, liveRoot)) = 2
    /\ Unreferenced(nodes, liveRoot) # {}

\* ------------------------------------------------- checks of the busy flag
\* handleGenerate ends in this step
RunEnds == lastOp'.op \in {"install", "failed"}

\* C33: every run of handleGenerate that ends, by an install, a quota
\* failure, an invalid-session failure or any other failure, ends with
\* isGenerating = false; and, every backend call settling, isGenerating is
\* false again after each request.
C33_BusyReleased ==
    /\ [][RunEnds => ~isGenerating' /\ genPc' = "idle"]_vars
    /\ (isGenerating ~> ~isGenerating)

\* a second request ended by the early return of the catch block: the brief
\* call threw ENTITY_NOT_FOUND while a document was installed
C33_Witness ==
    /\ lastOp.op = "failed"
    /\ lastOp.mode = "ENTITY_NOT_FOUND"
    /\ svgContent # <<>>
    /\ inFlight = <<>>
    /\ ~isGenerating

\* runs also ended by an install, by a quota failure and by another failure
C33_Installed == lastOp.op = "install" /\ ~isGenerating

C33_QuotaFailed == lastOp.op = "failed" /\ quotaError /\ ~isGenerating

C33_OtherFailed ==
    lastOp.op = "failed" /\ systemError = <<"Failed to fetch">> /\ ~isGenerating

\* ------------------------------------------------- checks of the outcome
\* how many of the three outcomes hold once the run has ended
Outcomes ==
    LET installed == lastOp'.op = "install"
        error == systemError' # <<>>
    IN {o \in {"scene", "quota", "error"} :
           \/ o = "scene" /\ installed /\ ~quotaError' /\ ~error
           \/ o = "quota" /\ quotaError' /\ ~error
           \/ o = "error" /\ error /\ ~quotaError'}

\* C34: when a run of handleGenerate ends, exactly one holds: a document was
\* installed and neither quotaError nor systemError is set; quotaError is set
\* and systemError is not; systemError is set and quotaError is not.
C34_ExclusiveOutcome ==
    [][RunEnds => Cardinality(Outcomes) = 1]_vars

\* the same for a run during which no other handler set the system error
C34_Undisturbed ==
    [][(RunEnds /\ systemError = <<>>) => Cardinality(Outcomes) = 1]_vars

\* a run ended on the quota with no system error, and one by an install
C34_QuotaAlone == lastOp.op = "failed" /\ quotaError /\ systemError = <<>>

C34_SceneAlone == lastOp.op = "install" /\ ~quotaError /\ systemError = <<>>

\* the key button was pressed without window.aistudio while the request ran,
\* and the run ended on the quota: both are set
C34_Both ==
    /\ lastOp.op = "failed"
    /\ quotaError
    /\ systemError = <<KeyUnsupported>>

====
